---- MODULE Spec2Model ----
(***************************************************************************)
(* The delta aggregator and batch flusher of the donation tracker          *)
(* (src/syncer.py, class Syncer): the event handlers that record a         *)
(* player's counters in board_batch_data, the 60-second board_insert_loop  *)
(* that writes the batch to the players and eventplayers tables and marks  *)
(* boards for re-rendering, and the donation-log batch; and the boards     *)
(* themselves: the render scheduler of src/syncboards.py (class            *)
(* SyncBoards), the board loop and the reaction navigation of              *)
(* src/cogs/boards.py (class DonationBoard), and the page/season footer    *)
(* that navigation reads back from the board message.                      *)
(***************************************************************************)
EXTENDS Integers, Sequences, FiniteSets, TLC

\* ---------------------------------------------------------------- bounds
MaxVal == 2
MaxEvents == 2
MaxRenames == 1
MaxErrors == 1
MaxSeason == 2
MaxPage == 3

\* Pages a query is built for, and the largest configured page size.
MaxQueryPage == 7
MaxPerPage == 3

\* autoclaim start and cancel commands issued, and the clan members walked.
MaxStarts == 2
MaxCancels == 2
MaxMembers == 2

\* new_season_start events.
MaxRollovers == 1

\* ------------------------------------------------------ program constants
\* bulk_board_insert: "if counter > 10"
PressureThreshold == 10

\* SyncBoards.__init__: the number of tasks coc.BasicThrottler lets in at a
\* time (a lock held by one task).
ThrottlerLimit == 1

Players == {"p1", "p2"}
Names == {"n1", "n2"}
Vals == 0 .. MaxVal

\* The clan a member is polled in (player.clan.tag).
ClanTags == {"c1", "c2"}
ClanOf(p) == IF p = "p1" THEN "c1" ELSE "c2"

VARIABLES
    cache,                    \* the events client's cached member records
    board_batch_lock,         \* "free", "flush" or "handler"
    board_batch_data,         \* player_tag -> pending entry
    batch_waiters,            \* handlers waiting for board_batch_lock, FIFO
    donationlog_batch_data,   \* sequence of donation-log events
    last_updated_batch_lock,  \* "free" or "flush"
    update_waiters,           \* update() calls waiting for that lock, FIFO
    last_updated_tags,
    last_updated_counter,
    boards_counter,           \* clan_tag -> pressure
    players,                  \* players table, rows of the current season
    eventplayers,             \* eventplayers table
    need_to_update,           \* boards.need_to_update of each clan's channel
    flush_pc,                 \* where board_insert_loop is suspended
    flush_args,               \* the argument handed to the statement awaited
    log_pc,                   \* where send_donationlog_events is suspended
    nEvents,                  \* counter events delivered so far
    nRenames,                 \* member_name events delivered so far
    nErrors,                  \* store errors raised so far
    \* history variables, read only by the properties
    lastEvent,                \* the last donation/received event handled
    window,                   \* per player: what the events of this window carried
    cycle                     \* what the current / last flush cycle did

VARIABLES
    toggle,                   \* boards.toggle of each channel's board
    message_id,               \* boards.message_id, 0 for NULL
    sort_by,                  \* boards.sort_by
    board_type,               \* boards.type
    message,                  \* the board message as the chat platform holds it
    sync_pc,                  \* SyncBoards.update_board_loops: "idle" or "gather"
    tasks,                    \* the run_board task of each board of this tick
    throttler,                \* holder of SyncBoards.throttler, or "free"
    legend_render,            \* the board legend_board_reset is archiving, or "none"
    cog_fetch,                \* rows DonationBoard.update_board_loops still has to do
    \* history variables, read only by the properties
    lastRender,               \* the last render that returned
    written,                  \* per board: the page and season last written
    lastNav                   \* the last navigation reaction handled

VARIABLES
    per_page,                 \* boards.per_page of the board whose pages are asked for
    \* history variables, read only by the properties
    queried,                  \* page -> the LIMIT and OFFSET last asked for it
    lastQuery,                \* the last page query built
    ranks                     \* the ranks the render of its rows displays, in order

VARIABLES
    start_update              \* players.start_update of each row of the season

VARIABLES
    running_commands,         \* AutoClaim.running_commands of the guild: "absent", "true", "false"
    invocations,              \* the autoclaim start commands issued in the guild
    claimed,                  \* the clan members whose players.user_id is set
    nCancels                  \* autoclaim cancel commands issued

VARIABLES
    updb_pc,                  \* Syncer.last_updated_loop: "idle", "wait", "query", "query2"
    stamped,                  \* the players whose players.last_updated has been set
    activity                  \* activity_query.counter of each player

VARIABLES
    self_season_id,           \* Syncer.season_id; players holds the rows of that season
    season_pc,                \* Syncer.season_start: "idle", "seasons", "players", "trophies"
    past_players,             \* players table, rows of the season before it
    \* history variable, read only by the properties
    carried                   \* the pending map as it was when season_id last changed

VARIABLES
    log_tags,                 \* clan_tags of the channel lookup of send_donationlog_events
    \* history variables, read only by the properties
    log_seen,                 \* the length of the donation-log batch at that lookup
    dispatched                \* channel -> the events the last run dispatched to it

\* Everything of the aggregator and the flusher but the boards' dirty flag.
syncer_vars == <<cache, board_batch_lock, board_batch_data, batch_waiters,
                 donationlog_batch_data, last_updated_batch_lock, update_waiters,
                 last_updated_tags, last_updated_counter, boards_counter, players,
                 eventplayers, flush_pc, flush_args, log_pc,
                 nEvents, nRenames, nErrors, lastEvent, window, cycle>>

board_vars == <<toggle, message_id, sort_by, board_type, message, sync_pc,
                tasks, throttler, legend_render, cog_fetch, lastRender,
                written, lastNav>>

\* The query window of a board page.
page_vars == <<per_page, queried, lastQuery, ranks>>

\* What the aggregator, the flusher and the boards leave alone.
\* The state of the other cogs.
claim_vars == <<running_commands, invocations, claimed, nCancels>>

cog_vars == <<start_update, claim_vars>>

season_vars == <<self_season_id, season_pc, past_players, carried>>

log_vars == <<log_tags, log_seen, dispatched>>

task_vars == <<updb_pc, stamped, activity, season_vars, log_vars>>

ext_vars == <<page_vars, cog_vars, task_vars>>

vars == <<syncer_vars, need_to_update, board_vars, ext_vars>>

\* ------------------------------------------------------------- helpers
NoEntries == << >>
NoEvent == [kind |-> "none"]

\* A variant that replaces the map by the one entry.
PutAlone(f, k, v) == [x \in {k} |-> v]

Put(f, k, v) == [x \in DOMAIN f \cup {k} |-> IF x = k THEN v ELSE f[x]]

Max(a, b) == IF a >= b THEN a ELSE b

\* CustomClanMember: the fields the handlers read.
Member(tag, dons, rec, tr, name) ==
    [tag |-> tag, donations |-> dons, received |-> rec, trophies |-> tr,
     name |-> name, clan |-> ClanOf(tag)]

\* Variants of the delta computation: without the reset branch, and with the
\* reset branch taken on equality.
ResolveNoReset(old, new) == new - old

ResolveGe(old, new) == IF old >= new THEN new ELSE new - old

\* The delta the donation and received handlers compute.
Resolve(old, new) == IF old > new THEN new ELSE new - old

\* public.get_don_rec_max(old, new, stored): the larger of the stored value
\* and the stored value plus the delta of the captured old/new pair.
get_don_rec_max(old, new, stored) == Max(stored, stored + Resolve(old, new))

\* ------------------------------------------------------------ initial state
\* Syncer.__init__ and the rows the tables hold when the process starts.
\* The Syncer when it starts, with the pressure counters as given and a row of
\* the current season in the players table for the players in tags.
SyncerBoot(counters, tags) ==
    /\ cache = [p \in Players |-> Member(p, 1, 1, 1, "n1")]
    /\ board_batch_lock = "free"
    /\ board_batch_data = NoEntries
    /\ batch_waiters = << >>
    /\ donationlog_batch_data = << >>
    /\ last_updated_batch_lock = "free"
    /\ update_waiters = << >>
    /\ last_updated_tags = {}
    /\ last_updated_counter = [p \in Players |-> 0]
    /\ boards_counter = counters
    /\ players = [p \in tags |->
                    [donations |-> 1, received |-> 1, true_trophies |-> 1,
                     clan_tag |-> ClanOf(p), player_name |-> "n1"]]
    /\ eventplayers = [p \in Players |->
                    [donations |-> 1, received |-> 1, trophies |-> 1,
                     live |-> (p = "p1")]]
    /\ flush_pc = "idle"
    /\ flush_args = [batch |-> NoEntries, tags |-> {}]
    /\ log_pc = "idle"
    /\ nEvents = 0
    /\ nRenames = 0
    /\ nErrors = 0
    /\ lastEvent = NoEvent
    /\ window = NoEntries
    /\ cycle = [result |-> "none", issued |-> {}, done |-> {}, sent |-> NoEntries]

\* Every player has a row of the season.
SyncerStart(counters) == SyncerBoot(counters, Players)

\* Syncer.__init__: boards_counter = Counter()
SyncerInit == SyncerStart([c \in ClanTags |-> 0])

\* ------------------------------------------------------------ board data
\* One board per clan channel; a channel is named by its clan tag.
Channels == ClanTags

Emojis == {"REFRESH", "LEFT", "RIGHT", "PERCENTAGE", "GAIN", "LAST_ONLINE",
           "HISTORICAL"}

\* seasonconfig.get_season_id(): the id of the current season.
get_season_id == MaxSeason

\* Text is a sequence of tokens: the separators " " and ";", and words that
\* hold neither of them.  A number is written as its numeral.
Numeral == [n \in -1 .. 9 |->
              CASE n = -1 -> "-1" [] n = 0 -> "0" [] n = 1 -> "1" [] n = 2 -> "2"
                [] n = 3 -> "3" [] n = 4 -> "4" [] n = 5 -> "5" [] n = 6 -> "6"
                [] n = 7 -> "7" [] n = 8 -> "8" [] n = 9 -> "9"]

\* str.split(sep): the pieces between the separators, empty pieces included.
\* SplitFrom scans text from position i on, with piece the piece begun.
RECURSIVE SplitFrom(_, _, _, _)
SplitFrom(text, sep, i, piece) ==
    IF i > Len(text) THEN <<piece>>
    ELSE IF text[i] = sep
    THEN <<piece>> \o SplitFrom(text, sep, i + 1, << >>)
    ELSE SplitFrom(text, sep, i + 1, Append(piece, text[i]))

Split(text, sep) == SplitFrom(text, sep, 1, << >>)

\* int(piece) converts a piece that is one numeral and raises ValueError on
\* any other.
IsInt(piece) == Len(piece) = 1 /\ \E n \in DOMAIN Numeral : Numeral[n] = piece[1]
int(piece) == CHOOSE n \in DOMAIN Numeral : Numeral[n] = piece[1]

\* text.split(";")[i - 1].split(" "): the pieces of the i-th part; none when
\* there is no i-th part (IndexError).
Pieces(text, i) ==
    LET parts == Split(text, ";")
    IN IF Len(parts) >= i THEN Split(parts[i], " ") ELSE << >>

\* int(pieces[1]) raises neither IndexError nor ValueError.
FieldOk(pieces) == Len(pieces) >= 2 /\ IsInt(pieces[2])

\* f"Page {page};Season {season_id};"
Footer(page, season_id) ==
    <<"Page", " ", Numeral[page], ";", "Season", " ", Numeral[season_id], ";">>

\* f"{url}\nPage {page};Season {season_id};"
DonationContent(page, season_id) ==
    <<"url\nPage", " ", Numeral[page], ";", "Season", " ", Numeral[season_id], ";">>

\* An embed: whether it has a footer, whether the footer has a text, the text.
Embed(has_footer, has_text, text) ==
    [has_footer |-> has_footer, has_text |-> has_text, text |-> text]

Message(content, embeds) == [content |-> content, embeds |-> embeds]

NoMessage == Message(<< >>, << >>)

\* "Placeholder.... do not delete me!" / BOARD_PLACEHOLDER
Placeholder == Message(<<"Placeholder">>, << >>)

\* SyncBoards.update_board: embed.set_footer(text="Last Updated", ...)
LastUpdatedEmbed == Embed(TRUE, TRUE, <<"Last", " ", "Updated">>)

\* embeds[0] exists (IndexError), has _footer (AttributeError) with a 'text'
\* (KeyError).
HasFooterText(msg) ==
    /\ Len(msg.embeds) >= 1
    /\ msg.embeds[1].has_footer
    /\ msg.embeds[1].has_text

\* A variant that keeps a page it parsed when the season does not parse.
DecodeKeepsParsed(msg) ==
    LET text == IF HasFooterText(msg) THEN msg.embeds[1].text ELSE << >>
        first == Pieces(text, 1)
        second == Pieces(text, 2)
    IN [page |-> IF HasFooterText(msg) /\ FieldOk(first)
                 THEN int(first[2]) ELSE 1,
        season_id |-> IF HasFooterText(msg) /\ FieldOk(second)
                      THEN int(second[2]) ELSE get_season_id]

\* page and season_id after the try/except of new_donationboard_updater:
\*     page = int(footer['text'].split(";")[0].split(" ")[1])
\*     season_id = int(footer['text'].split(";")[1].split(" ")[1])
\* and, on AttributeError, KeyError, ValueError or IndexError, 1 and the
\* current season.
Decode(msg) ==
    LET text == IF HasFooterText(msg) THEN msg.embeds[1].text ELSE << >>
        first == Pieces(text, 1)
        second == Pieces(text, 2)
    IN IF HasFooterText(msg) /\ FieldOk(first) /\ FieldOk(second)
       THEN [page |-> int(first[2]), season_id |-> int(second[2])]
       ELSE [page |-> 1, season_id |-> get_season_id]

\* Board messages without a readable footer: no embed, an embed without a
\* footer, a footer without a text, the scheduler's "Last Updated", a wrong
\* separator, a missing space, a missing season, a field that is no number.
MalformedMessages ==
    {Placeholder,
     Message(<< >>, <<Embed(FALSE, FALSE, << >>)>>),
     Message(<< >>, <<Embed(TRUE, FALSE, << >>)>>),
     Message(<< >>, <<LastUpdatedEmbed>>),
     Message(<< >>, <<Embed(TRUE, TRUE,
                 <<"Page", " ", "2", ",", "Season", " ", "1", ",">>)>>),
     Message(<< >>, <<Embed(TRUE, TRUE, <<"Page", "2", ";", "Season", "1", ";">>)>>),
     Message(<< >>, <<Embed(TRUE, TRUE, <<"Page", " ", "2">>)>>),
     Message(<< >>, <<Embed(TRUE, TRUE,
                 <<"Page", " ", "two", ";", "Season", " ", "1", ";">>)>>),
     Message(<< >>, <<Embed(TRUE, TRUE,
                 <<"Page", " ", "2", ";", "Season", " ", "x", ";">>)>>)}

\* A message whose embeds are those of one of them, whatever its content.
Malformed(msg) ==
    Len(msg.embeds) = 0 \/ \E m \in MalformedMessages : m.embeds = msg.embeds

\* original_sort = 'donations' if fetch['type'] == 'donation' else 'trophies'
DefaultSort(type) == IF type = "donation" THEN "donations" ELSE "trophies"

NoTask == [st |-> "none", message_id |-> 0, toggle |-> TRUE]
NoRender == [board |-> "none", path |-> "none", outcome |-> "none",
             toggle |-> TRUE, toggle_after |-> TRUE]
NoPage == [page |-> 0, season |-> 0]
NoNav == [board |-> "none", emoji |-> "none", malformed |-> FALSE,
          had_text |-> FALSE, sort_before |-> "none", expected |-> NoPage,
          page |-> 0, season |-> 0, target |-> 0, tseason |-> 0,
          proceeded |-> FALSE, rendered |-> FALSE, unchanged |-> TRUE,
          wrote |-> NoPage]

\* The boards table and the processes when they start: every board enabled
\* and clean; types, message ids and messages as given.
BoardsStart(types, ids, messages) ==
    /\ toggle = [c \in Channels |-> TRUE]
    /\ message_id = ids
    /\ board_type = types
    /\ sort_by = [c \in Channels |-> DefaultSort(types[c])]
    /\ message = messages
    /\ sync_pc = "idle"
    /\ tasks = [c \in Channels |-> NoTask]
    /\ throttler = "free"
    /\ legend_render = "none"
    /\ cog_fetch = {}
    /\ lastRender = NoRender
    /\ written = [c \in Channels |-> NoPage]
    /\ lastNav = NoNav

\* A donation board and a trophy board, neither with a message yet.
BoardsInit ==
    BoardsStart([c \in Channels |-> IF c = "c1" THEN "donation" ELSE "trophy"],
                [c \in Channels |-> 0], [c \in Channels |-> NoMessage])

\* ------------------------------------------------------------ board pages
\* A variant whose table ends one page early.
get_next_per_page_from5(page_no, config_per_page) ==
    IF config_per_page = 0
    THEN IF page_no >= 5 THEN 50
         ELSE CASE page_no = 1 -> 15 [] page_no = 2 -> 15 [] page_no = 3 -> 20
                [] page_no = 4 -> 25
    ELSE config_per_page

\* get_next_per_page(page_no, config_per_page), the same in DonationBoard and
\* in SyncBoards: lookup[page_no] of the table, 50 past it; lookup has no key
\* below 1.
get_next_per_page(page_no, config_per_page) ==
    IF config_per_page = 0
    THEN IF page_no > 5 THEN 50
         ELSE CASE page_no = 1 -> 15 [] page_no = 2 -> 15 [] page_no = 3 -> 20
                [] page_no = 4 -> 25 [] page_no = 5 -> 25
    ELSE config_per_page

\* "for i in range(1, stop): offset += self.get_next_per_page(i, per_page)",
\* from i on with offset so far.
RECURSIVE OffsetLoop(_, _, _, _)
OffsetLoop(i, stop, config_per_page, offset) ==
    IF i >= stop THEN offset
    ELSE OffsetLoop(i + 1, stop, config_per_page,
                    offset + get_next_per_page(i, config_per_page))

\* A variant that lets page 0 through.
IgnoredBelowZero(page, add_pages) == page + add_pages < 0

\* "if page + add_pages < 1: return"
Ignored(page, add_pages) == page + add_pages < 1

NoQuery == [path |-> "none", page |-> 0, limit |-> 0, offset |-> 0]
NoWindow == [limit |-> 0, offset |-> 0]

PagesStart(pp) ==
    /\ per_page = pp
    /\ queried = [n \in 1 .. MaxQueryPage |-> NoWindow]
    /\ lastQuery = NoQuery
    /\ ranks = << >>

\* "enumerate(self.players, start)" over n rows: the numbers displayed.
Enumerate(n, start) == [i \in 1 .. n |-> start + i - 1]

\* SyncBoards' HTMLImages: "self.offset = offset or 1", then
\* "enumerate(self.players, start=self.offset)".
SyncRanks(n, offset) == Enumerate(n, IF offset = 0 THEN 1 ELSE offset)

\* DonationBoard's renders: a donation board goes through HTMLImages, which
\* numbers with "enumerate(self.players, start=1)"; the other boards through
\* BoardPlayer(..., i + offset + 1).
CogRanks(n, offset, donationboard) ==
    IF donationboard THEN Enumerate(n, 1) ELSE Enumerate(n, offset + 1)

\* The query new_donationboard_updater builds for the decoded page:
\* "LIMIT get_next_per_page(page + add_pages, per_page) OFFSET offset".
updater_query(page, add_pages, reset) ==
    LET page1 == IF reset THEN 1 ELSE page
        offset == IF reset THEN 0
                  ELSE OffsetLoop(1, page + add_pages, per_page, 0)
        q == [path |-> "cog", page |-> page1 + add_pages,
              limit |-> get_next_per_page(page1 + add_pages, per_page),
              offset |-> IF offset < 0 THEN 0 ELSE offset]
    IN /\ ~Ignored(page, add_pages)
       /\ page1 + add_pages \in 1 .. MaxQueryPage
       /\ lastQuery' = q
       /\ queried' = [queried EXCEPT ![q.page] =
                         [limit |-> q.limit, offset |-> q.offset]]
       /\ \E donationboard \in BOOLEAN :
              ranks' = CogRanks(q.limit, q.offset, donationboard)
       /\ UNCHANGED <<syncer_vars, need_to_update, board_vars, per_page, cog_vars,
                    task_vars>>

\* The query SyncBoards.update_board builds for config.page.
update_board_query(page) ==
    LET q == [path |-> "sync", page |-> page,
              limit |-> get_next_per_page(page, per_page),
              offset |-> OffsetLoop(1, page, per_page, 0)]
    IN /\ lastQuery' = q
       /\ queried' = [queried EXCEPT ![page] =
                         [limit |-> q.limit, offset |-> q.offset]]
       /\ ranks' = SyncRanks(q.limit, q.offset)
       /\ UNCHANGED <<syncer_vars, need_to_update, board_vars, per_page, cog_vars,
                    task_vars>>

\* The page queries of a board with any configured page size.
NextPages ==
    \/ \E page \in 1 .. MaxQueryPage, add_pages \in {-1, 0, 1} :
          updater_query(page, add_pages, FALSE)
    \/ \E page \in 1 .. MaxQueryPage : updater_query(page, 0, TRUE)
    \/ \E page \in 1 .. MaxQueryPage : update_board_query(page)

\* -------------------------------------------------------------- AutoClaim
\* The autoclaim commands of one guild.  An invocation of "autoclaim start"
\* is suspended at one of its awaits:
\*   "idle"      not issued yet
\*   "confirm"   the flag is set; awaiting the season id, the clans or the
\*               first prompt
\*   "send"      awaiting the send of "You can stop this command ..."
\*   "member"    in the body of the first loop for the member idx, before
\*               the account is claimed or found unclaimable
\*   "sent"      awaiting the send that reports on the member idx
\*   "ask"       awaiting the prompt between the two loops
\*   "failed"    in the body of the second loop for the failed player idx
\*   "fsent"     awaiting the sends and edits that follow it
\* or has ended: "rejected", "returned" (a return that leaves the flag),
\* "stopped", "done", "crashed" (KeyError on running_commands[guild.id]).
Starts == 1 .. MaxStarts
Members == 1 .. MaxMembers

Running == {"confirm", "send", "member", "sent", "ask", "failed", "fsent"}
InLoops == {"member", "sent", "ask", "failed", "fsent"}

NoInvocation == [pc |-> "idle", idx |-> 0, failed_players |-> << >>,
                 cancelled |-> FALSE]

ClaimInit ==
    /\ running_commands = "absent"
    /\ invocations = [i \in Starts |-> NoInvocation]
    /\ claimed = {}
    /\ nCancels = 0

\* The head of "for member in c.members" reached by invocation inv for the
\* member k, up to the next await: past the last member the loop ends and the
\* second prompt is awaited; otherwise "if self.running_commands[guild.id]
\* is False" deletes the flag and stops, and the body begins with the fetch.
\* Gives the invocation and the flag afterwards.
FirstLoopHead(inv, k, flag) ==
    IF k > MaxMembers
    THEN [inv |-> [inv EXCEPT !.pc = "ask", !.idx = 0], flag |-> flag]
    ELSE IF flag = "absent"
    THEN [inv |-> [inv EXCEPT !.pc = "crashed"], flag |-> flag]
    ELSE IF flag = "false"
    THEN [inv |-> [inv EXCEPT !.pc = "stopped"], flag |-> "absent"]
    ELSE [inv |-> [inv EXCEPT !.pc = "member", !.idx = k], flag |-> flag]

\* The head of "for player, fail_msg in failed_players" for the k-th failed
\* player; past the last one "del self.running_commands[guild.id]" and
\* "All done. Thanks!".
SecondLoopHead(inv, k, flag) ==
    IF flag = "absent"
    THEN [inv |-> [inv EXCEPT !.pc = "crashed"], flag |-> flag]
    ELSE IF k > Len(inv.failed_players)
    THEN [inv |-> [inv EXCEPT !.pc = "done"], flag |-> "absent"]
    ELSE IF flag = "false"
    THEN [inv |-> [inv EXCEPT !.pc = "stopped"], flag |-> "absent"]
    ELSE [inv |-> [inv EXCEPT !.pc = "failed", !.idx = k], flag |-> flag]

Proceeds(i, h) ==
    /\ invocations' = [invocations EXCEPT ![i] = h.inv]
    /\ running_commands' = h.flag

\* "autoclaim start": rejected when running_commands.get(guild.id, False),
\* else the flag is set.
auto_claim_start(i) ==
    /\ invocations[i].pc = "idle"
    /\ \A j \in Starts : j < i => invocations[j].pc # "idle"
    /\ IF running_commands = "true"
       THEN /\ invocations' = [invocations EXCEPT ![i].pc = "rejected"]
            /\ UNCHANGED running_commands
       ELSE /\ invocations' = [invocations EXCEPT ![i].pc = "confirm"]
            /\ running_commands' = "true"
    /\ UNCHANGED <<syncer_vars, need_to_update, board_vars, page_vars, task_vars,
                   start_update, claimed, nCancels>>

\* The first prompt is answered, or times out: "if prompt is None: return".
confirm_prompt(i, answered) ==
    /\ invocations[i].pc = "confirm"
    /\ invocations' = [invocations EXCEPT
                          ![i].pc = IF answered THEN "send" ELSE "returned"]
    /\ UNCHANGED <<syncer_vars, need_to_update, board_vars, page_vars, task_vars,
                   start_update, running_commands, claimed, nCancels>>

\* The send returned: the first loop begins.
send_done(i) ==
    /\ invocations[i].pc = "send"
    /\ Proceeds(i, FirstLoopHead(invocations[i], 1, running_commands))
    /\ UNCHANGED <<syncer_vars, need_to_update, board_vars, page_vars, task_vars,
                   start_update, claimed, nCancels>>

\* The body of the first loop for the member idx: a member whose account is
\* claimed already is skipped ("if fetch: continue"); otherwise the account
\* is claimed to a user (by match_player or by the UPDATE after the prompt),
\* or no user is found or chosen and the member joins failed_players.
member_outcome(i, claims) ==
    LET inv == invocations[i] IN
    /\ inv.pc = "member"
    /\ IF inv.idx \in claimed
       THEN /\ Proceeds(i, FirstLoopHead(inv, inv.idx + 1, running_commands))
            /\ UNCHANGED claimed
       ELSE /\ claimed' = IF claims THEN claimed \cup {inv.idx} ELSE claimed
            /\ invocations' = [invocations EXCEPT
                   ![i].pc = "sent",
                   ![i].failed_players = IF claims THEN @ ELSE Append(@, inv.idx)]
            /\ UNCHANGED running_commands
    /\ UNCHANGED <<syncer_vars, need_to_update, board_vars, page_vars, task_vars,
                   start_update, nCancels>>

\* The report on the member was sent: on to the next member.
sent_done(i) ==
    /\ invocations[i].pc = "sent"
    /\ Proceeds(i, FirstLoopHead(invocations[i], invocations[i].idx + 1,
                                 running_commands))
    /\ UNCHANGED <<syncer_vars, need_to_update, board_vars, page_vars, task_vars,
                   start_update, claimed, nCancels>>

\* The second prompt: "if not prompt: return await ctx.confirm()", else the
\* second loop begins.
ask_prompt(i, answer) ==
    /\ invocations[i].pc = "ask"
    /\ IF answer
       THEN Proceeds(i, SecondLoopHead(invocations[i], 1, running_commands))
       ELSE /\ invocations' = [invocations EXCEPT ![i].pc = "returned"]
            /\ UNCHANGED running_commands
    /\ UNCHANGED <<syncer_vars, need_to_update, board_vars, page_vars, task_vars,
                   start_update, claimed, nCancels>>

\* The body of the second loop: the user names a member and the account is
\* claimed by the UPDATE, or the name converts to no member.
failed_outcome(i, claims) ==
    LET inv == invocations[i] IN
    /\ inv.pc = "failed"
    /\ invocations' = [invocations EXCEPT ![i].pc = "fsent"]
    /\ claimed' = IF claims THEN claimed \cup {inv.failed_players[inv.idx]}
                            ELSE claimed
    /\ UNCHANGED <<syncer_vars, need_to_update, board_vars, page_vars, task_vars,
                   start_update, running_commands, nCancels>>

\* The sends after it returned: on to the next failed player.
fsent_done(i) ==
    /\ invocations[i].pc = "fsent"
    /\ Proceeds(i, SecondLoopHead(invocations[i], invocations[i].idx + 1,
                                  running_commands))
    /\ UNCHANGED <<syncer_vars, need_to_update, board_vars, page_vars, task_vars,
                   start_update, claimed, nCancels>>

\* "autoclaim cancel": self.running_commands[ctx.guild.id] = False.  The
\* invocations running at that moment are noted as cancelled.
auto_claim_cancel ==
    /\ nCancels < MaxCancels
    /\ nCancels' = nCancels + 1
    /\ running_commands' = "false"
    /\ invocations' = [i \in Starts |->
                          IF invocations[i].pc \in Running
                          THEN [invocations[i] EXCEPT !.cancelled = TRUE]
                          ELSE invocations[i]]
    /\ UNCHANGED <<syncer_vars, need_to_update, board_vars, page_vars, task_vars,
                   start_update, claimed>>

NextClaim ==
    \/ \E i \in Starts : auto_claim_start(i)
    \/ \E i \in Starts, answered \in BOOLEAN : confirm_prompt(i, answered)
    \/ \E i \in Starts : send_done(i)
    \/ \E i \in Starts, claims \in BOOLEAN : member_outcome(i, claims)
    \/ \E i \in Starts : sent_done(i)
    \/ \E i \in Starts, answer \in BOOLEAN : ask_prompt(i, answer)
    \/ \E i \in Starts, claims \in BOOLEAN : failed_outcome(i, claims)
    \/ \E i \in Starts : fsent_done(i)
    \/ auto_claim_cancel

\* The rows of the season have been seeded (start_update = True, as
\* on_clan_member_join inserts them); no autoclaim command has been issued.
CogsInit == start_update = [p \in Players |-> TRUE] /\ ClaimInit

\* No tick of last_updated_loop has run.
TasksInit ==
    /\ updb_pc = "idle"
    /\ stamped = {}
    /\ activity = [p \in Players |-> 0]
    /\ self_season_id = get_season_id
    /\ season_pc = "idle"
    /\ past_players = NoEntries
    /\ carried = NoEntries
    /\ log_tags = {}
    /\ log_seen = 0
    /\ dispatched = [c \in Channels |-> << >>]

ExtInit == PagesStart(0) /\ CogsInit /\ TasksInit

Init ==
    /\ SyncerInit
    /\ need_to_update = [c \in ClanTags |-> FALSE]
    /\ BoardsInit
    /\ ExtInit

InitPages ==
    /\ SyncerInit
    /\ need_to_update = [c \in ClanTags |-> FALSE]
    /\ BoardsInit
    /\ \E pp \in 0 .. MaxPerPage : PagesStart(pp)
    /\ CogsInit
    /\ TasksInit

SpecPages == InitPages /\ [][NextPages]_vars

SpecClaim == Init /\ [][NextClaim]_vars

\* ------------------------------------------------------ the pending map
\* The entry a handler creates on KeyError.
NewEntry(player, old_dons, new_dons, old_rec, new_rec, trophies) ==
    [player_tag |-> player.tag, old_dons |-> old_dons, new_dons |-> new_dons,
     old_rec |-> old_rec, new_rec |-> new_rec, trophies |-> trophies,
     clan_tag |-> player.clan, player_name |-> player.name]

\* The body of "async with self.board_batch_lock" of the three handlers;
\* w = [kind, old, new] holds old_player and player of the event.
Record(batch, w) ==
    LET tag == w.new.tag IN
    CASE w.kind = "donation" ->
            IF tag \in DOMAIN batch
            THEN [batch EXCEPT ![tag].old_dons = w.old.donations,
                               ![tag].new_dons = w.new.donations]
            ELSE Put(batch, tag, NewEntry(w.new, w.old.donations, w.new.donations,
                                          w.new.received, w.new.received,
                                          w.new.trophies))
      [] w.kind = "received" ->
            IF tag \in DOMAIN batch
            THEN [batch EXCEPT ![tag].old_rec = w.old.received,
                               ![tag].new_rec = w.new.received]
            ELSE Put(batch, tag, NewEntry(w.new, w.new.donations, w.new.donations,
                                          w.old.received, w.new.received,
                                          w.new.trophies))
      [] w.kind = "trophies" ->
            IF tag \in DOMAIN batch
            THEN [batch EXCEPT ![tag].trophies = w.new.trophies]
            ELSE Put(batch, tag, NewEntry(w.new, w.new.donations, w.new.donations,
                                          w.new.received, w.new.received,
                                          w.new.trophies))

\* History: what the events recorded for a player in this window carried.
Seen(win, w) ==
    LET tag == w.new.tag
        prev == IF tag \in DOMAIN win THEN win[tag]
                ELSE [dons |-> 0, rec |-> 0, written |-> 0]
    IN Put(win, tag,
           [dons |-> prev.dons + (IF w.kind = "donation"
                                  THEN Resolve(w.old.donations, w.new.donations)
                                  ELSE 0),
            rec |-> prev.rec + (IF w.kind = "received"
                                THEN Resolve(w.old.received, w.new.received)
                                ELSE 0),
            written |-> prev.written,
            trophies |-> w.new.trophies,
            clan_tag |-> w.new.clan,
            player_name |-> w.new.name])

\* A variant in which the handlers do not take the lock.
BatchLockOpenAlways == TRUE

\* "async with self.board_batch_lock" enters without suspending only when the
\* lock is free and nobody waits for it.
BatchLockOpen == board_batch_lock = "free" /\ batch_waiters = << >>

\* Syncer.update(player_tag, clan_tag), for the calls made in this step.
update(calls) ==
    IF calls = << >>
    THEN UNCHANGED <<boards_counter, last_updated_counter, last_updated_tags,
                     update_waiters>>
    ELSE IF last_updated_batch_lock = "free" /\ update_waiters = << >>
    THEN /\ boards_counter' = [boards_counter EXCEPT ![calls[1].clan_tag] = @ + 1]
         /\ last_updated_counter' =
                [last_updated_counter EXCEPT ![calls[1].player_tag] = @ + 1]
         /\ last_updated_tags' = last_updated_tags \cup {calls[1].player_tag}
         /\ UNCHANGED update_waiters
    ELSE /\ update_waiters' = update_waiters \o calls
         /\ UNCHANGED <<boards_counter, last_updated_counter, last_updated_tags>>

UpdateCall(player) == <<[player_tag |-> player.tag, clan_tag |-> player.clan]>>

\* The call on_clan_member_trophies_change makes after it recorded the entry.
AfterRecord(w) ==
    IF w.kind = "trophies" /\ w.new.trophies > w.old.trophies
    THEN UpdateCall(w.new) ELSE << >>

\* Entering "async with self.board_batch_lock" with the event w: the handler
\* records at once, or queues behind the holder of the lock.
Enter(w) ==
    IF BatchLockOpen
    THEN /\ board_batch_data' = Record(board_batch_data, w)
         /\ window' = Seen(window, w)
         /\ UNCHANGED batch_waiters
    ELSE /\ batch_waiters' = Append(batch_waiters, w)
         /\ UNCHANGED <<board_batch_data, window>>

LogEvent(player, donations, received) ==
    [player_tag |-> player.tag, player_name |-> player.name,
     clan_tag |-> player.clan, donations |-> donations, received |-> received]

\* ------------------------------------------------------------ the events
\* A member_donations event: the client replaces its cached record and runs
\* on_clan_member_donation and on_member_update with (old_player, player).
member_donations(p, new) ==
    LET old_player == cache[p]
        player == [cache[p] EXCEPT !.donations = new]
        donations == Resolve(old_player.donations, player.donations)
    IN /\ nEvents < MaxEvents
       /\ nEvents' = nEvents + 1
       /\ cache' = [cache EXCEPT ![p] = player]
       /\ donationlog_batch_data' =
              Append(donationlog_batch_data, LogEvent(player, donations, 0))
       /\ lastEvent' = [kind |-> "donation", old |-> old_player.donations,
                        new |-> player.donations]
       /\ Enter([kind |-> "donation", old |-> old_player, new |-> player])
       /\ update(UpdateCall(player))
       /\ UNCHANGED <<nRenames, board_batch_lock, last_updated_batch_lock, players,
                      eventplayers, need_to_update, flush_pc, flush_args,
                      log_pc, nErrors, cycle>>
       /\ UNCHANGED <<board_vars, ext_vars>>

\* A member_received event: on_clan_member_received and on_member_update.
member_received(p, new) ==
    LET old_player == cache[p]
        player == [cache[p] EXCEPT !.received = new]
        received == Resolve(old_player.received, player.received)
    IN /\ nEvents < MaxEvents
       /\ nEvents' = nEvents + 1
       /\ cache' = [cache EXCEPT ![p] = player]
       /\ donationlog_batch_data' =
              Append(donationlog_batch_data, LogEvent(player, 0, received))
       /\ lastEvent' = [kind |-> "received", old |-> old_player.received,
                        new |-> player.received]
       /\ Enter([kind |-> "received", old |-> old_player, new |-> player])
       /\ update(UpdateCall(player))
       /\ UNCHANGED <<nRenames, board_batch_lock, last_updated_batch_lock, players,
                      eventplayers, need_to_update, flush_pc, flush_args,
                      log_pc, nErrors, cycle>>
       /\ UNCHANGED <<board_vars, ext_vars>>

\* A member_trophies event: on_clan_member_trophies_change, which calls
\* update() after it recorded the entry when the trophies went up.
member_trophies(p, new) ==
    LET old_player == cache[p]
        player == [cache[p] EXCEPT !.trophies = new]
        w == [kind |-> "trophies", old |-> old_player, new |-> player]
    IN /\ nEvents < MaxEvents
       /\ nEvents' = nEvents + 1
       /\ cache' = [cache EXCEPT ![p] = player]
       /\ Enter(w)
       /\ update(IF BatchLockOpen THEN AfterRecord(w) ELSE << >>)
       /\ UNCHANGED <<nRenames, board_batch_lock, donationlog_batch_data,
                      last_updated_batch_lock, players, eventplayers,
                      need_to_update, flush_pc, flush_args, log_pc, nErrors,
                      lastEvent, cycle>>
       /\ UNCHANGED <<board_vars, ext_vars>>

\* A member_name event: on_member_update only.
member_name(p, name) ==
    LET player == [cache[p] EXCEPT !.name = name]
    IN /\ nRenames < MaxRenames
       /\ name # cache[p].name
       /\ nRenames' = nRenames + 1
       /\ cache' = [cache EXCEPT ![p] = player]
       /\ update(UpdateCall(player))
       /\ UNCHANGED <<nEvents, board_batch_lock, board_batch_data, batch_waiters,
                      donationlog_batch_data, last_updated_batch_lock, players,
                      eventplayers, need_to_update, flush_pc, flush_args,
                      log_pc, nErrors, lastEvent, window, cycle>>
       /\ UNCHANGED <<board_vars, ext_vars>>

\* The first handler waiting for board_batch_lock gets it and records.
handler_resume ==
    /\ batch_waiters # << >>
    /\ board_batch_lock = "free"
    /\ board_batch_data' = Record(board_batch_data, Head(batch_waiters))
    /\ window' = Seen(window, Head(batch_waiters))
    /\ batch_waiters' = Tail(batch_waiters)
    /\ update(AfterRecord(Head(batch_waiters)))
    /\ UNCHANGED <<cache, board_batch_lock, donationlog_batch_data,
                   last_updated_batch_lock, players, eventplayers,
                   need_to_update, flush_pc, flush_args, log_pc, nEvents, nRenames,
                   nErrors, lastEvent, cycle>>
    /\ UNCHANGED <<board_vars, ext_vars>>

\* The first update() call waiting for last_updated_batch_lock gets it.
update_resume ==
    /\ update_waiters # << >>
    /\ last_updated_batch_lock = "free"
    /\ boards_counter' =
           [boards_counter EXCEPT ![Head(update_waiters).clan_tag] = @ + 1]
    /\ last_updated_counter' =
           [last_updated_counter EXCEPT ![Head(update_waiters).player_tag] = @ + 1]
    /\ last_updated_tags' =
           last_updated_tags \cup {Head(update_waiters).player_tag}
    /\ update_waiters' = Tail(update_waiters)
    /\ UNCHANGED <<cache, board_batch_lock, board_batch_data, batch_waiters,
                   donationlog_batch_data, last_updated_batch_lock, players,
                   eventplayers, need_to_update, flush_pc, flush_args, log_pc,
                   nEvents, nRenames, nErrors, lastEvent, window, cycle>>
    /\ UNCHANGED <<board_vars, ext_vars>>

\* --------------------------------------------------------- the statements
\* A variant of query that stores the captured new values as they are.
PlayersUpdateOverwrite(rows, batch) ==
    [p \in DOMAIN rows |->
        IF p \in DOMAIN batch
        THEN [rows[p] EXCEPT !.donations = batch[p].new_dons,
                             !.received = batch[p].new_rec,
                             !.true_trophies = batch[p].trophies,
                             !.clan_tag = batch[p].clan_tag,
                             !.player_name = batch[p].player_name]
        ELSE rows[p]]

\* query: UPDATE players ... WHERE players.player_tag = x.player_tag.
PlayersUpdate(rows, batch) ==
    [p \in DOMAIN rows |->
        IF p \in DOMAIN batch
        THEN [rows[p] EXCEPT
                 !.donations = get_don_rec_max(batch[p].old_dons, batch[p].new_dons, @),
                 !.received = get_don_rec_max(batch[p].old_rec, batch[p].new_rec, @),
                 !.true_trophies = batch[p].trophies,
                 !.clan_tag = batch[p].clan_tag,
                 !.player_name = batch[p].player_name]
        ELSE rows[p]]

\* query2: UPDATE eventplayers ... WHERE ... AND eventplayers.live = true.
EventPlayersUpdate(rows, batch) ==
    [p \in DOMAIN rows |->
        IF p \in DOMAIN batch /\ rows[p].live
        THEN [rows[p] EXCEPT
                 !.donations = get_don_rec_max(batch[p].old_dons, batch[p].new_dons, @),
                 !.received = get_don_rec_max(batch[p].old_rec, batch[p].new_rec, @),
                 !.trophies = batch[p].trophies]
        ELSE rows[p]]

\* query3: UPDATE boards SET need_to_update = TRUE for the channels of tags.
BoardsUpdate(boards, tags) == [c \in DOMAIN boards |-> boards[c] \/ c \in tags]

\* A variant that also takes a counter at the threshold.
PressedTagsAtThreshold == {c \in ClanTags : boards_counter[c] >= PressureThreshold}

\* tags = set(tag for (tag, counter) in self.boards_counter.items() if counter > 10)
PressedTags == {c \in ClanTags : boards_counter[c] > PressureThreshold}

\* ------------------------------------------------------ board_insert_loop
\* A variant without the emptiness test.
HasPendingAlways(batch) == TRUE

\* "if self.board_batch_data:"
HasPending(batch) == DOMAIN batch # {}

\* A tick of board_insert_loop: takes board_batch_lock and enters
\* bulk_board_insert, which returns at once on an empty batch and otherwise
\* suspends in pool.execute(query, ...).
board_insert_loop ==
    /\ flush_pc = "idle"
    /\ board_batch_lock = "free"
    /\ batch_waiters = << >>
    /\ IF HasPending(board_batch_data)
       THEN /\ board_batch_lock' = "flush"
            /\ flush_pc' = "query"
            /\ flush_args' = [batch |-> board_batch_data, tags |-> {}]
            /\ cycle' = [result |-> "running", issued |-> {"query"},
                         done |-> {}, sent |-> board_batch_data]
       ELSE /\ cycle' = [result |-> "empty", issued |-> {}, done |-> {},
                         sent |-> NoEntries]
            /\ UNCHANGED <<board_batch_lock, flush_pc, flush_args>>
    /\ UNCHANGED <<cache, board_batch_data, batch_waiters,
                   donationlog_batch_data, last_updated_batch_lock,
                   update_waiters, last_updated_tags, last_updated_counter,
                   boards_counter, players, eventplayers, need_to_update,
                   log_pc, nEvents, nRenames, nErrors, lastEvent, window>>
    /\ UNCHANGED <<board_vars, ext_vars>>

\* "async with self.last_updated_batch_lock": compute tags, issue query3.
IssueQuery3 ==
    /\ last_updated_batch_lock' = "flush"
    /\ flush_pc' = "query3"
    /\ flush_args' = [batch |-> NoEntries, tags |-> PressedTags]
    /\ cycle' = [cycle EXCEPT !.issued = @ \cup {"query3"},
                              !.done = @ \cup {"query2"}]

\* query returned: the players table is updated; query2 is issued.
query_done ==
    /\ flush_pc = "query"
    /\ players' = PlayersUpdate(players, flush_args.batch)
    /\ window' = [p \in DOMAIN window |->
                    IF p \in DOMAIN flush_args.batch
                    THEN [window[p] EXCEPT !.written = @ + 1] ELSE window[p]]
    /\ flush_pc' = "query2"
    /\ flush_args' = [batch |-> board_batch_data, tags |-> {}]
    /\ cycle' = [cycle EXCEPT !.issued = @ \cup {"query2"},
                              !.done = @ \cup {"query"}]
    /\ UNCHANGED <<cache, board_batch_lock, board_batch_data, batch_waiters,
                   donationlog_batch_data, last_updated_batch_lock,
                   update_waiters, last_updated_tags, last_updated_counter,
                   boards_counter, eventplayers, need_to_update, log_pc,
                   nEvents, nRenames, nErrors, lastEvent>>
    /\ UNCHANGED <<board_vars, ext_vars>>

\* query2 returned: eventplayers is updated; the loop goes on to take
\* last_updated_batch_lock, suspending if update() calls wait for it.
query2_done ==
    /\ flush_pc = "query2"
    /\ eventplayers' = EventPlayersUpdate(eventplayers, flush_args.batch)
    /\ IF last_updated_batch_lock = "free" /\ update_waiters = << >>
       THEN IssueQuery3
       ELSE /\ flush_pc' = "lock3"
            /\ flush_args' = [batch |-> NoEntries, tags |-> {}]
            /\ cycle' = [cycle EXCEPT !.done = @ \cup {"query2"}]
            /\ UNCHANGED last_updated_batch_lock
    /\ UNCHANGED <<cache, board_batch_lock, board_batch_data, batch_waiters,
                   donationlog_batch_data, update_waiters, last_updated_tags,
                   last_updated_counter, boards_counter, players,
                   need_to_update, log_pc, nEvents, nRenames, nErrors, lastEvent, window>>
    /\ UNCHANGED <<board_vars, ext_vars>>

\* The loop gets last_updated_batch_lock after waiting for it.
lock3_acquired ==
    /\ flush_pc = "lock3"
    /\ last_updated_batch_lock = "free"
    /\ update_waiters = << >>
    /\ IssueQuery3
    /\ UNCHANGED <<cache, board_batch_lock, board_batch_data, batch_waiters,
                   donationlog_batch_data, update_waiters, last_updated_tags,
                   last_updated_counter, boards_counter, players, eventplayers,
                   need_to_update, log_pc, nEvents, nRenames, nErrors, lastEvent, window>>
    /\ UNCHANGED <<board_vars, ext_vars>>

\* query3 returned: pop the counters of tags, leave both locks, clear the batch.
query3_done ==
    /\ flush_pc = "query3"
    /\ need_to_update' = BoardsUpdate(need_to_update, flush_args.tags)
    /\ boards_counter' = [c \in ClanTags |->
                            IF c \in flush_args.tags THEN 0 ELSE boards_counter[c]]
    /\ last_updated_batch_lock' = "free"
    /\ board_batch_data' = NoEntries
    /\ window' = NoEntries
    /\ board_batch_lock' = "free"
    /\ flush_pc' = "idle"
    /\ flush_args' = [batch |-> NoEntries, tags |-> {}]
    /\ cycle' = [result |-> "ok", issued |-> cycle.issued,
                 done |-> cycle.done \cup {"query3"}, sent |-> NoEntries]
    /\ UNCHANGED <<cache, batch_waiters, donationlog_batch_data, update_waiters,
                   last_updated_tags, last_updated_counter, players,
                   eventplayers, log_pc, nEvents, nRenames, nErrors, lastEvent>>
    /\ UNCHANGED <<board_vars, ext_vars>>

\* A variant that drops the batch of a failed cycle (clear in a finally).
query_error_drop ==
    /\ flush_pc \in {"query", "query2", "query3"}
    /\ nErrors < MaxErrors
    /\ nErrors' = nErrors + 1
    /\ last_updated_batch_lock' = "free"
    /\ board_batch_lock' = "free"
    /\ flush_pc' = "idle"
    /\ flush_args' = [batch |-> NoEntries, tags |-> {}]
    /\ cycle' = [cycle EXCEPT !.result = "failed", !.sent = NoEntries]
    /\ board_batch_data' = NoEntries
    /\ window' = NoEntries
    /\ UNCHANGED <<cache, batch_waiters, donationlog_batch_data, update_waiters,
                   last_updated_tags, last_updated_counter, boards_counter,
                   players, eventplayers, need_to_update, log_pc, nEvents,
                   nRenames, lastEvent>>
    /\ UNCHANGED <<board_vars, ext_vars>>

\* A variant in which the exception does not leave "async with
\* self.board_batch_lock" (acquire and release without a context manager).
query_error_holds ==
    /\ flush_pc \in {"query", "query2", "query3"}
    /\ nErrors < MaxErrors
    /\ nErrors' = nErrors + 1
    /\ last_updated_batch_lock' = "free"
    /\ flush_pc' = "idle"
    /\ flush_args' = [batch |-> NoEntries, tags |-> {}]
    /\ cycle' = [cycle EXCEPT !.result = "failed", !.sent = NoEntries]
    /\ UNCHANGED <<cache, board_batch_lock, board_batch_data, batch_waiters,
                   donationlog_batch_data, update_waiters, last_updated_tags,
                   last_updated_counter, boards_counter, players, eventplayers,
                   need_to_update, log_pc, nEvents, nRenames, lastEvent, window>>
    /\ UNCHANGED <<board_vars, ext_vars>>

\* A variant that pops the counters of the tags although query3 raised (pop
\* in a finally).
query_error_pops ==
    /\ flush_pc \in {"query", "query2", "query3"}
    /\ nErrors < MaxErrors
    /\ nErrors' = nErrors + 1
    /\ boards_counter' = [c \in ClanTags |->
                            IF c \in flush_args.tags THEN 0 ELSE boards_counter[c]]
    /\ last_updated_batch_lock' = "free"
    /\ board_batch_lock' = "free"
    /\ flush_pc' = "idle"
    /\ flush_args' = [batch |-> NoEntries, tags |-> {}]
    /\ cycle' = [cycle EXCEPT !.result = "failed", !.sent = NoEntries]
    /\ UNCHANGED <<cache, board_batch_data, batch_waiters,
                   donationlog_batch_data, update_waiters, last_updated_tags,
                   last_updated_counter, players, eventplayers,
                   need_to_update, log_pc, nEvents, nRenames, lastEvent, window>>
    /\ UNCHANGED <<board_vars, ext_vars>>

\* The statement awaited raises: the exception leaves both "async with"
\* blocks and the loop body; task_error restarts the failed loop.
query_error ==
    /\ flush_pc \in {"query", "query2", "query3"}
    /\ nErrors < MaxErrors
    /\ nErrors' = nErrors + 1
    /\ last_updated_batch_lock' = "free"
    /\ board_batch_lock' = "free"
    /\ flush_pc' = "idle"
    /\ flush_args' = [batch |-> NoEntries, tags |-> {}]
    /\ cycle' = [cycle EXCEPT !.result = "failed", !.sent = NoEntries]
    /\ UNCHANGED <<cache, board_batch_data, batch_waiters,
                   donationlog_batch_data, update_waiters, last_updated_tags,
                   last_updated_counter, boards_counter, players, eventplayers,
                   need_to_update, log_pc, nEvents, nRenames, lastEvent, window>>
    /\ UNCHANGED <<board_vars, ext_vars>>

\* ------------------------------------------------------ last_updated_loop
\* "async with self.last_updated_batch_lock" of update_db: entered at once
\* when the lock is free and nobody waits for it; then the first
\* pool.execute is awaited.
TakeForUpdateDb ==
    /\ last_updated_batch_lock = "free"
    /\ update_waiters = << >>
    /\ last_updated_batch_lock' = "update_db"
    /\ updb_pc' = "query"

\* A tick of last_updated_loop: update_db takes the lock or waits for it.
last_updated_loop ==
    /\ updb_pc = "idle"
    /\ IF last_updated_batch_lock = "free" /\ update_waiters = << >>
       THEN TakeForUpdateDb
       ELSE updb_pc' = "wait" /\ UNCHANGED last_updated_batch_lock
    /\ UNCHANGED <<cache, board_batch_lock, board_batch_data, batch_waiters,
                   donationlog_batch_data, update_waiters, last_updated_tags,
                   last_updated_counter, boards_counter, players, eventplayers,
                   need_to_update, flush_pc, flush_args, log_pc, nEvents,
                   nRenames, nErrors, lastEvent, window, cycle>>
    /\ UNCHANGED <<board_vars, page_vars, cog_vars, stamped, activity,
                   season_vars, log_vars>>

\* update_db gets the lock after waiting for it.
update_db_acquired ==
    /\ updb_pc = "wait"
    /\ TakeForUpdateDb
    /\ UNCHANGED <<cache, board_batch_lock, board_batch_data, batch_waiters,
                   donationlog_batch_data, update_waiters, last_updated_tags,
                   last_updated_counter, boards_counter, players, eventplayers,
                   need_to_update, flush_pc, flush_args, log_pc, nEvents,
                   nRenames, nErrors, lastEvent, window, cycle>>
    /\ UNCHANGED <<board_vars, page_vars, cog_vars, stamped, activity,
                   season_vars, log_vars>>

\* The first statement returned: last_updated is set for last_updated_tags;
\* the second one is issued with the counters.
update_db_query_done ==
    /\ updb_pc = "query"
    /\ stamped' = stamped \cup last_updated_tags
    /\ updb_pc' = "query2"
    /\ UNCHANGED <<syncer_vars, need_to_update, board_vars, page_vars, cog_vars,
                   activity, season_vars, log_vars>>

\* The second statement returned: the counters are added to activity_query,
\* the tags and the counters are cleared and the lock is left.
update_db_query2_done ==
    /\ updb_pc = "query2"
    /\ activity' = [p \in Players |-> activity[p] + last_updated_counter[p]]
    /\ last_updated_tags' = {}
    /\ last_updated_counter' = [p \in Players |-> 0]
    /\ last_updated_batch_lock' = "free"
    /\ updb_pc' = "idle"
    /\ UNCHANGED <<cache, board_batch_lock, board_batch_data, batch_waiters,
                   donationlog_batch_data, update_waiters, boards_counter,
                   players, eventplayers, need_to_update, flush_pc, flush_args,
                   log_pc, nEvents, nRenames, nErrors, lastEvent, window, cycle>>
    /\ UNCHANGED <<board_vars, page_vars, cog_vars, stamped, season_vars, log_vars>>

\* A variant in which the exception does not leave the "async with" block.
update_db_error_holds ==
    /\ updb_pc \in {"query", "query2"}
    /\ nErrors < MaxErrors
    /\ nErrors' = nErrors + 1
    /\ updb_pc' = "idle"
    /\ UNCHANGED <<cache, board_batch_lock, board_batch_data, batch_waiters,
                   donationlog_batch_data, last_updated_batch_lock,
                   update_waiters, last_updated_tags, last_updated_counter,
                   boards_counter, players, eventplayers, need_to_update,
                   flush_pc, flush_args, log_pc, nEvents, nRenames, lastEvent,
                   window, cycle>>
    /\ UNCHANGED <<board_vars, page_vars, cog_vars, stamped, activity,
                   season_vars, log_vars>>

\* A statement of update_db raises: the exception leaves the "async with"
\* block and is logged by last_updated_loop; nothing is cleared.
update_db_error ==
    /\ updb_pc \in {"query", "query2"}
    /\ nErrors < MaxErrors
    /\ nErrors' = nErrors + 1
    /\ last_updated_batch_lock' = "free"
    /\ updb_pc' = "idle"
    /\ UNCHANGED <<cache, board_batch_lock, board_batch_data, batch_waiters,
                   donationlog_batch_data, update_waiters, last_updated_tags,
                   last_updated_counter, boards_counter, players, eventplayers,
                   need_to_update, flush_pc, flush_args, log_pc, nEvents,
                   nRenames, lastEvent, window, cycle>>
    /\ UNCHANGED <<board_vars, page_vars, cog_vars, stamped, activity,
                   season_vars, log_vars>>

\* ----------------------------------------------------------- season_start
\* The new_season_start event: up to "await pool.fetchrow(INSERT INTO seasons
\* ...)".
season_start ==
    /\ season_pc = "idle"
    /\ self_season_id < get_season_id + MaxRollovers
    /\ season_pc' = "seasons"
    /\ UNCHANGED <<syncer_vars, need_to_update, board_vars, page_vars, cog_vars,
                   updb_pc, stamped, activity, self_season_id, past_players,
                   carried, log_vars>>

\* The fetchrow returned: "self.season_id = fetch['id']", and the INSERT of
\* the new season's rows is awaited.  From here on the statements of the
\* flush name the new season, which has no rows yet.  A statement on players
\* that is in flight carries the season id it was issued with, so the step is
\* taken when none is.
season_inserted ==
    /\ season_pc = "seasons"
    /\ flush_pc # "query"
    /\ self_season_id' = self_season_id + 1
    /\ past_players' = players
    /\ players' = NoEntries
    /\ carried' = board_batch_data
    /\ season_pc' = "players"
    /\ UNCHANGED <<cache, board_batch_lock, board_batch_data, batch_waiters,
                   donationlog_batch_data, last_updated_batch_lock,
                   update_waiters, last_updated_tags, last_updated_counter,
                   boards_counter, eventplayers, need_to_update, flush_pc,
                   flush_args, log_pc, nEvents, nRenames, nErrors, lastEvent,
                   window, cycle>>
    /\ UNCHANGED <<board_vars, page_vars, cog_vars, updb_pc, stamped, activity,
                   log_vars>>

\* "INSERT INTO players (...) SELECT player_tag, 0, 0, user_id, season_id + 1,
\* player_name, trophies FROM players WHERE season_id = $1" returned: every
\* row of the season before has a row of the new one; clan_tag and
\* true_trophies are not among its columns.
season_rows_inserted ==
    /\ season_pc = "players"
    /\ flush_pc # "query"
    /\ players' = [p \in DOMAIN past_players |->
                      [donations |-> 0, received |-> 0, true_trophies |-> 0,
                       clan_tag |-> "none",
                       player_name |-> past_players[p].player_name]]
    /\ season_pc' = "trophies"
    /\ UNCHANGED <<cache, board_batch_lock, board_batch_data, batch_waiters,
                   donationlog_batch_data, last_updated_batch_lock,
                   update_waiters, last_updated_tags, last_updated_counter,
                   boards_counter, eventplayers, need_to_update, flush_pc,
                   flush_args, log_pc, nEvents, nRenames, nErrors, lastEvent,
                   window, cycle>>
    /\ UNCHANGED <<board_vars, page_vars, cog_vars, updb_pc, stamped, activity,
                   self_season_id, past_players, carried, log_vars>>

\* The UPDATE of start_trophies and the last safe_send returned.
season_start_done ==
    /\ season_pc = "trophies"
    /\ season_pc' = "idle"
    /\ UNCHANGED <<syncer_vars, need_to_update, board_vars, page_vars, cog_vars,
                   updb_pc, stamped, activity, self_season_id, past_players,
                   carried, log_vars>>

\* ------------------------------------------------ send_donationlog_events
\* The clans with a donation log whose toggle is on (logs INNER JOIN clans);
\* the log channel of a clan is named by its clan tag.
LogEnabled == ClanTags

\* "clan_tags = list(set(n['clan_tag'] for n in self.donationlog_batch_data))"
BatchClanTags(batch) == {batch[i].clan_tag : i \in 1 .. Len(batch)}

\* The rows the lookup returns: the enabled donation logs of the clans asked
\* for.
Fetched(tags) == tags \cap LogEnabled

\* Up to "await pool.fetch(query, clan_tags)".
send_donationlog_events ==
    /\ log_pc = "idle"
    /\ log_pc' = "fetch"
    /\ log_tags' = BatchClanTags(donationlog_batch_data)
    /\ log_seen' = Len(donationlog_batch_data)
    /\ UNCHANGED <<cache, board_batch_lock, board_batch_data, batch_waiters,
                   donationlog_batch_data, last_updated_batch_lock,
                   update_waiters, last_updated_tags, last_updated_counter,
                   boards_counter, players, eventplayers, need_to_update,
                   flush_pc, flush_args, nEvents, nRenames, nErrors, lastEvent, window,
                   cycle>>
    /\ UNCHANGED <<board_vars, page_vars, cog_vars, updb_pc, stamped, activity,
                   season_vars, dispatched>>

\* The fetch returned: copy the batch, clear it, and dispatch each event of
\* the copy to the log channels the lookup returned for its clan.
donationlog_dispatch ==
    LET data == donationlog_batch_data
        ForClan(c) == SelectSeq(data, LAMBDA e : e.clan_tag = c)
    IN
    /\ log_pc = "fetch"
    /\ log_pc' = "idle"
    /\ donationlog_batch_data' = << >>
    /\ dispatched' = [c \in Channels |->
                         IF c \in Fetched(log_tags) THEN ForClan(c) ELSE << >>]
    /\ lastEvent' = NoEvent
    /\ UNCHANGED <<cache, board_batch_lock, board_batch_data, batch_waiters,
                   last_updated_batch_lock, update_waiters, last_updated_tags,
                   last_updated_counter, boards_counter, players, eventplayers,
                   need_to_update, flush_pc, flush_args, nEvents, nRenames, nErrors,
                   window, cycle>>
    /\ UNCHANGED <<board_vars, page_vars, cog_vars, updb_pc, stamped, activity,
                   season_vars, log_tags, log_seen>>

\* ------------------------------------------------------------ the system
\* The aggregator and the flusher: events, handlers and board_insert_loop.
Next ==
    \/ \E p \in Players, new \in Vals : member_donations(p, new)
    \/ \E p \in Players, new \in Vals : member_received(p, new)
    \/ \E p \in Players, new \in Vals : member_trophies(p, new)
    \/ \E p \in Players, name \in Names : member_name(p, name)
    \/ handler_resume
    \/ update_resume
    \/ board_insert_loop
    \/ query_done
    \/ query2_done
    \/ lock3_acquired
    \/ query3_done
    \/ query_error

Spec == Init /\ [][Next]_vars

\* The flusher when the clans' members have been active for a while: the
\* donation and name events and the flush cycle, from a state in which every
\* earlier batch has been flushed and a clan's counter stands one below the
\* threshold.
NextSweep ==
    \/ \E p \in Players, new \in Vals : member_donations(p, new)
    \/ \E p \in Players, name \in Names : member_name(p, name)
    \/ handler_resume
    \/ update_resume
    \/ board_insert_loop
    \/ query_done
    \/ query2_done
    \/ lock3_acquired
    \/ query3_done
    \/ query_error

InitSweep ==
    /\ SyncerStart([c \in ClanTags |->
                       IF c = "c1" THEN PressureThreshold - 1 ELSE 0])
    /\ need_to_update = [c \in ClanTags |-> FALSE]
    /\ BoardsInit
    /\ ExtInit

SpecSweep == InitSweep /\ [][NextSweep]_vars

\* The aggregator and the flusher when the players table holds a row of the
\* current season for some of the players only: a row is inserted for a member
\* by on_clan_member_join and by season_start, not for one the events client
\* never reported as joining.
InitCoverage ==
    /\ \E tags \in SUBSET Players : SyncerBoot([c \in ClanTags |-> 0], tags)
    /\ need_to_update = [c \in ClanTags |-> FALSE]
    /\ BoardsInit
    /\ ExtInit

SpecCoverage == InitCoverage /\ [][Next]_vars

\* The aggregator and the flusher around a season rollover.
NextSeason ==
    \/ \E p \in Players, new \in Vals : member_donations(p, new)
    \/ handler_resume
    \/ update_resume
    \/ board_insert_loop
    \/ query_done
    \/ query2_done
    \/ lock3_acquired
    \/ query3_done
    \/ season_start
    \/ season_inserted
    \/ season_rows_inserted
    \/ season_start_done

SpecSeason == Init /\ [][NextSeason]_vars

\* The donation events, the waiting handlers and the flush loop, with store
\* statements that raise at most MaxErrors times.  board_insert_loop ticks
\* every 60 seconds and is restarted by task_error after a failure, a
\* statement that does not raise returns, and a lock that is left is taken by
\* the first task waiting for it.
NextFlush ==
    \/ \E p \in Players, new \in Vals : member_donations(p, new)
    \/ handler_resume
    \/ update_resume
    \/ board_insert_loop
    \/ query_done
    \/ query2_done
    \/ lock3_acquired
    \/ query3_done
    \/ query_error

SpecFlushFair ==
    /\ Init /\ [][NextFlush]_vars
    /\ WF_vars(handler_resume)
    /\ WF_vars(update_resume)
    /\ WF_vars(board_insert_loop)
    /\ WF_vars(query_done)
    /\ WF_vars(query2_done)
    /\ WF_vars(lock3_acquired)
    /\ WF_vars(query3_done)

\* The tasks that take the two locks: the handlers of donation and trophy
\* events, board_insert_loop and last_updated_loop.
NextLocks ==
    \/ \E p \in Players, new \in Vals : member_donations(p, new)
    \/ \E p \in Players, new \in Vals : member_trophies(p, new)
    \/ handler_resume
    \/ update_resume
    \/ board_insert_loop
    \/ query_done
    \/ query2_done
    \/ lock3_acquired
    \/ query3_done
    \/ query_error
    \/ last_updated_loop
    \/ update_db_acquired
    \/ update_db_query_done
    \/ update_db_query2_done
    \/ update_db_error

SpecLocks == Init /\ [][NextLocks]_vars

\* A pass of the cog's add_new_players for the row of player p, one of those
\* "SELECT player_tag FROM players WHERE start_update = False" returns:
\* get_players fetches the player, whose donations and received are d and r,
\* and "UPDATE players SET donations = $1, received = $2, ..., start_update =
\* True" stores them.
add_new_players(p, d, r) ==
    /\ ~start_update[p]
    /\ players' = [players EXCEPT ![p].donations = d, ![p].received = r]
    /\ start_update' = [start_update EXCEPT ![p] = TRUE]
    /\ UNCHANGED <<cache, board_batch_lock, board_batch_data, batch_waiters,
                   donationlog_batch_data, last_updated_batch_lock,
                   update_waiters, last_updated_tags, last_updated_counter,
                   boards_counter, eventplayers, need_to_update, flush_pc,
                   flush_args, log_pc, nEvents, nRenames, nErrors, lastEvent,
                   window, cycle>>
    /\ UNCHANGED <<board_vars, page_vars, claim_vars, task_vars>>

\* The writers of the players table: the flusher with the donation events,
\* and add_new_players, from a season whose rows the rollover or a join made.
NextOwners ==
    \/ \E p \in Players, new \in Vals : member_donations(p, new)
    \/ handler_resume
    \/ update_resume
    \/ board_insert_loop
    \/ query_done
    \/ query2_done
    \/ lock3_acquired
    \/ query3_done
    \/ query_error
    \/ \E p \in Players, d \in Vals, r \in Vals : add_new_players(p, d, r)

InitOwners ==
    /\ SyncerInit
    /\ need_to_update = [c \in ClanTags |-> FALSE]
    /\ BoardsInit
    /\ PagesStart(0)
    /\ start_update \in [Players -> BOOLEAN]
    /\ ClaimInit
    /\ TasksInit

SpecOwners == InitOwners /\ [][NextOwners]_vars

\* The donation log: the handlers that append to it and the task that sends it.
NextLog ==
    \/ \E p \in Players, new \in Vals : member_donations(p, new)
    \/ \E p \in Players, new \in Vals : member_received(p, new)
    \/ send_donationlog_events
    \/ donationlog_dispatch

SpecLog == Init /\ [][NextLog]_vars

\* A variant in which marking a board cancels its render in flight.
boards_marked_cancels(tags) ==
    /\ tags # {}
    /\ need_to_update' = BoardsUpdate(need_to_update, tags)
    /\ tasks' = [c \in Channels |->
                   IF c \in tags /\ tasks[c].st = "render"
                   THEN [tasks[c] EXCEPT !.st = "done"] ELSE tasks[c]]
    /\ throttler' = IF throttler \in tags /\ tasks[throttler].st = "render"
                    THEN "free" ELSE throttler
    /\ UNCHANGED <<syncer_vars, ext_vars, toggle, message_id, sort_by,
                   board_type, message, sync_pc, legend_render, cog_fetch,
                   lastRender, written, lastNav>>

\* ======================================================== the boards
\* The flusher's query3 as the boards table sees it: need_to_update is set
\* for the channels of the clans in tags.
boards_marked(tags) ==
    /\ tags # {}
    /\ need_to_update' = BoardsUpdate(need_to_update, tags)
    /\ UNCHANGED <<syncer_vars, ext_vars, board_vars>>

\* ------------------------------------------------- SyncBoards (the scheduler)
\* "UPDATE boards SET need_to_update=False WHERE need_to_update=True AND
\* toggle=True RETURNING *": the rows the statement returns.
Claimed == {c \in Channels : need_to_update[c] /\ toggle[c]}

\* A tick of SyncBoards.update_board_loops: the UPDATE ... RETURNING claims
\* the dirty enabled boards, a run_board task is created for each with the
\* row as its config, and the tick waits in asyncio.gather.
update_board_loops ==
    /\ sync_pc = "idle"
    /\ need_to_update' = [c \in Channels |-> need_to_update[c] /\ c \notin Claimed]
    /\ tasks' = [c \in Channels |->
                   IF c \in Claimed
                   THEN [st |-> "queued", message_id |-> message_id[c],
                         toggle |-> TRUE]
                   ELSE NoTask]
    /\ sync_pc' = IF Claimed = {} THEN "idle" ELSE "gather"
    /\ UNCHANGED <<syncer_vars, ext_vars, toggle, message_id, sort_by, board_type, message,
                   throttler, legend_render, cog_fetch, lastRender, written,
                   lastNav>>

\* run_board: "async with self.throttler" is entered and update_board starts.
run_board(c) ==
    /\ tasks[c].st = "queued"
    /\ throttler = "free"
    /\ throttler' = c
    /\ tasks' = [tasks EXCEPT ![c].st = "render", ![c].toggle = toggle[c]]
    /\ UNCHANGED <<syncer_vars, ext_vars, need_to_update, toggle, message_id, sort_by,
                   board_type, message, sync_pc, legend_render, cog_fetch,
                   lastRender, written, lastNav>>

\* How SyncBoards.update_board can end:
\*   "ok"              the board message was edited
\*   "empty"           the query returned no rows
\*   "error"           the query, the image or the webhook raised
\*   "send_forbidden"  set_new_message: send_message raised Forbidden/NotFound
\*   "edit_not_found"  edit_message raised NotFound, a new message was sent
\*   "edit_not_found_send_forbidden"   ... and sending the new one was rejected
\*   "edit_forbidden"  edit_message raised Forbidden (an HTTPException); the
\*                     notice was then written into the message
\*   "edit_http_error" edit_message raised another HTTPException (a server
\*                     error); writing the notice raised as well
\*   "edit_error"      edit_message raised something else
SyncOutcomes == {"ok", "empty", "error", "send_forbidden", "edit_not_found",
                 "edit_not_found_send_forbidden", "edit_forbidden",
                 "edit_http_error", "edit_error"}

\* The outcomes after which update_board ran
\* "UPDATE boards SET toggle = FALSE WHERE channel_id = $1".
SyncDisables == {"send_forbidden", "edit_not_found_send_forbidden",
                 "edit_forbidden", "edit_http_error"}

EmbedLinksNotice == <<"Please", " ", "enable", " ", "Embed", " ", "Links">>

\* SyncBoards.update_board(config) returns or raises; run_board's "except:"
\* logs what it raised, and the throttler's exit begins.
update_board(c, outcome) ==
    LET config == tasks[c]
        \* "if not config.message_id": set_new_message sent a placeholder
        sent == config.message_id = 0 /\ outcome # "send_forbidden"
        old == IF sent THEN Placeholder ELSE message[c]
    IN /\ tasks[c].st = "render"
       /\ outcome \in SyncOutcomes
       /\ (outcome = "send_forbidden") => config.message_id = 0
       /\ toggle' = [toggle EXCEPT ![c] = IF outcome \in SyncDisables
                                          THEN FALSE ELSE @]
       /\ message_id' = [message_id EXCEPT ![c] = IF sent THEN 1 ELSE @]
       /\ message' = [message EXCEPT ![c] =
              CASE outcome = "ok" -> Message(<< >>, <<LastUpdatedEmbed>>)
                [] outcome = "edit_not_found" -> Placeholder
                [] outcome = "edit_forbidden" -> Message(EmbedLinksNotice, old.embeds)
                [] OTHER -> old]
       /\ written' = [written EXCEPT ![c] =
              IF sent \/ outcome \in {"ok", "edit_not_found", "edit_forbidden"}
              THEN NoPage ELSE @]
       /\ lastRender' = [board |-> c, path |-> "sync", outcome |-> outcome,
                         toggle |-> config.toggle, toggle_after |-> toggle'[c]]
       /\ tasks' = [tasks EXCEPT ![c].st = "sleep"]
       /\ UNCHANGED <<syncer_vars, ext_vars, need_to_update, sort_by, board_type, sync_pc,
                      throttler, legend_render, cog_fetch, lastNav>>

\* The throttler's exit ends: the next task may enter; run_board returns.
run_board_exit(c) ==
    /\ tasks[c].st = "sleep"
    /\ throttler' = "free"
    /\ tasks' = [tasks EXCEPT ![c].st = "done"]
    /\ UNCHANGED <<syncer_vars, ext_vars, need_to_update, toggle, message_id, sort_by,
                   board_type, message, sync_pc, legend_render, cog_fetch,
                   lastRender, written, lastNav>>

\* A variant of gather that returns as soon as one task has finished.
GatherReturnsOnFirst == \E c \in Channels : tasks[c].st = "done"

\* asyncio.gather(*current_tasks) returns when every task has returned (no
\* task raises: run_board catches everything).
GatherReturns == \A c \in Channels : tasks[c].st \in {"none", "done"}

\* The tick ends; tasks.loop starts the next one five seconds later.
gather_done ==
    /\ sync_pc = "gather"
    /\ GatherReturns
    /\ sync_pc' = "idle"
    /\ tasks' = [c \in Channels |-> NoTask]
    /\ UNCHANGED <<syncer_vars, ext_vars, need_to_update, toggle, message_id, sort_by,
                   board_type, message, throttler, legend_render, cog_fetch,
                   lastRender, written, lastNav>>

\* legend_board_reset wakes at the day's reset, selects the enabled legend
\* boards and calls update_board(config, divert_to=...) for the board c,
\* outside the throttler.
legend_board_reset(c) ==
    /\ legend_render = "none"
    /\ board_type[c] = "legend"
    /\ toggle[c]
    /\ legend_render' = c
    /\ UNCHANGED <<syncer_vars, ext_vars, need_to_update, toggle, message_id, sort_by,
                   board_type, message, sync_pc, tasks, throttler, cog_fetch,
                   lastRender, written, lastNav>>

\* That update_board returns (the image went to the divert channel, or there
\* were no rows) or raises; the board message is not touched.
legend_update_board(outcome) ==
    /\ legend_render # "none"
    /\ outcome \in {"ok", "empty", "error"}
    /\ legend_render' = "none"
    /\ lastRender' = [board |-> legend_render, path |-> "legend",
                      outcome |-> outcome, toggle |-> TRUE,
                      toggle_after |-> toggle[legend_render]]
    /\ UNCHANGED <<syncer_vars, ext_vars, need_to_update, toggle, message_id, sort_by,
                   board_type, message, sync_pc, tasks, throttler, cog_fetch,
                   written, lastNav>>

\* ------------------------------------------------ DonationBoard (the cog)
\* How new_donationboard_updater can end:
\*   "rows"            the query returned rows and the message was edited
\*   "empty"           the query returned no rows
\*   "error"           the query, the image or the webhook raised
\*   "edit_forbidden"  message.edit raised Forbidden or NotFound
\*   "send_forbidden"  there was no message and sending one was rejected
\* A variant that renders whatever the query returned.
ScrolledTooFarNever(outcome, target) == FALSE

\* "if not players: return  # they scrolled too far": the query returned no
\* row, for the season or, as beyond MaxPage, for the page.
ScrolledTooFar(outcome, target) == outcome = "empty" \/ target > MaxPage

CogOutcomes == {"rows", "empty", "error", "edit_forbidden", "send_forbidden"}

\* new_donationboard_updater(config, add_pages, season_offset, reset) for the
\* board c: what it decodes, what it asks for and what it leaves behind.
\* Pages beyond MaxPage have no rows.
new_donationboard_updater(c, add_pages, season_offset, reset, outcome) ==
    LET sent == message_id[c] = 0 /\ outcome # "send_forbidden"
        msg == IF message_id[c] = 0 THEN Placeholder ELSE message[c]
        page == Decode(msg).page
        season_id == Decode(msg).season_id
        proceeded == outcome # "send_forbidden" /\ ~Ignored(page, add_pages)
        page1 == IF reset THEN 1 ELSE page
        season1 == IF reset THEN get_season_id ELSE season_id + season_offset
        season2 == IF season1 < 1 THEN get_season_id ELSE season1
        target == page1 + add_pages
        rendered == proceeded /\ outcome \in {"rows", "empty"}
                              /\ ~ScrolledTooFar(outcome, target)
    IN [disabled |-> outcome = "send_forbidden",
        message_id |-> IF sent THEN 1 ELSE message_id[c],
        message |->
            IF rendered
            THEN IF board_type[c] = "donation"
                 THEN Message(DonationContent(target, season2), msg.embeds)
                 ELSE Message(<< >>, <<Embed(TRUE, TRUE, Footer(target, season2))>>)
            ELSE IF sent THEN Placeholder ELSE message[c],
        written |-> IF rendered THEN [page |-> target, season |-> season2]
                    ELSE IF sent THEN NoPage ELSE written[c],
        malformed |-> Malformed(msg), had_text |-> HasFooterText(msg),
        page |-> page, season |-> season_id,
        target |-> target, tseason |-> season2,
        proceeded |-> proceeded, rendered |-> rendered,
        outcome |-> CASE rendered -> "ok"
                      [] proceeded /\ outcome = "rows" -> "empty"
                      [] OTHER -> outcome]

\* The state a call of new_donationboard_updater leaves behind.
Updated(c, r, path) ==
    /\ toggle' = [toggle EXCEPT ![c] = IF r.disabled THEN FALSE ELSE @]
    /\ message_id' = [message_id EXCEPT ![c] = r.message_id]
    /\ message' = [message EXCEPT ![c] = r.message]
    /\ written' = [written EXCEPT ![c] = r.written]
    /\ lastRender' = IF r.proceeded \/ r.disabled
                     THEN [board |-> c, path |-> path, outcome |-> r.outcome,
                           toggle |-> toggle[c], toggle_after |-> toggle'[c]]
                     ELSE lastRender

\* A tick of DonationBoard.update_board_loops:
\* "SELECT channel_id, type FROM boards WHERE need_to_update = TRUE".
DonationBoard_update_board_loops ==
    /\ cog_fetch = {}
    /\ cog_fetch' = {c \in Channels : need_to_update[c]}
    /\ UNCHANGED <<syncer_vars, ext_vars, need_to_update, toggle, message_id, sort_by,
                   board_type, message, sync_pc, tasks, throttler,
                   legend_render, lastRender, written, lastNav>>

\* DonationBoard.update_board: returns on a disabled board, renders otherwise.
DonationBoard_update_board(c, outcome, path) ==
    /\ outcome \in CogOutcomes
    /\ (outcome = "send_forbidden") => message_id[c] = 0
    /\ IF toggle[c]
       THEN \E r \in {new_donationboard_updater(c, 0, 0, FALSE, outcome)} :
               Updated(c, r, path)
       ELSE UNCHANGED <<toggle, message_id, message, written, lastRender>>

\* The body of the loop for one of the rows fetched; what update_board
\* raises is logged and the loop goes on.
update_board_loops_body(c, outcome) ==
    /\ c \in cog_fetch
    /\ cog_fetch' = cog_fetch \ {c}
    /\ DonationBoard_update_board(c, outcome, "cog")
    /\ UNCHANGED <<syncer_vars, ext_vars, need_to_update, sort_by, board_type, sync_pc,
                   tasks, throttler, legend_render, lastNav>>

\* The forceboard command: update_board(message_id=...).
forceboard(c, outcome) ==
    /\ message_id[c] # 0
    /\ DonationBoard_update_board(c, outcome, "force")
    /\ UNCHANGED <<syncer_vars, ext_vars, need_to_update, sort_by, board_type, sync_pc,
                   tasks, throttler, legend_render, cog_fetch, lastNav>>

\* reaction_action: what the emoji asks for.
AddPages(emoji) == IF emoji = "RIGHT" THEN 1 ELSE IF emoji = "LEFT" THEN -1 ELSE 0

\* A variant in which HISTORICAL leaves the season alone.
SeasonOffsetNone(emoji) == 0

SeasonOffset(emoji) == IF emoji = "HISTORICAL" THEN -1 ELSE 0

\* A variant in which REFRESH does not reset.
HardResetNever(emoji) == FALSE

HardReset(emoji) == emoji = "REFRESH"

\* The "UPDATE boards SET sort_by = ..." of the emoji's branch.
SortAfter(emoji, type, current) ==
    CASE emoji = "REFRESH" -> DefaultSort(type)
      [] emoji = "PERCENTAGE" -> "ratio"
      [] emoji = "GAIN" -> "gain"
      [] emoji = "LAST_ONLINE" -> "last_online ASC, player_name"
      [] OTHER -> current

\* reaction_action for a reaction added to or removed from the message of
\* the board c: the board row is read by message id, sort_by is updated, and
\* new_donationboard_updater renders.
reaction_action(c, emoji, outcome) ==
    /\ message_id[c] # 0
    /\ outcome \in CogOutcomes \ {"send_forbidden"}
    /\ \E r \in {new_donationboard_updater(c, AddPages(emoji), SeasonOffset(emoji),
                                           HardReset(emoji), outcome)} :
       /\ sort_by' = [sort_by EXCEPT ![c] = SortAfter(emoji, board_type[c], @)]
       /\ Updated(c, r, "reaction")
       /\ lastNav' = [board |-> c, emoji |-> emoji, malformed |-> r.malformed,
                      had_text |-> r.had_text, sort_before |-> sort_by[c],
                      expected |-> written[c], page |-> r.page,
                      season |-> r.season, target |-> r.target,
                      tseason |-> r.tseason, proceeded |-> r.proceeded,
                      rendered |-> r.rendered,
                      unchanged |-> message'[c] = message[c],
                      wrote |-> r.written]
       /\ UNCHANGED <<syncer_vars, ext_vars, need_to_update, board_type, sync_pc, tasks,
                      throttler, legend_render, cog_fetch>>

\* ------------------------------------------------------ the boards' systems
\* The render scheduler: the boards marked by the flusher, the ticks of
\* SyncBoards and the legend archive.
NextRender ==
    \/ \E tags \in SUBSET ClanTags : boards_marked(tags)
    \/ update_board_loops
    \/ \E c \in Channels : run_board(c)
    \/ \E c \in Channels, outcome \in SyncOutcomes : update_board(c, outcome)
    \/ \E c \in Channels : run_board_exit(c)
    \/ gather_done
    \/ \E c \in Channels : legend_board_reset(c)
    \/ \E outcome \in {"ok", "empty", "error"} : legend_update_board(outcome)

\* A donation board and a legend board.
InitRender ==
    /\ SyncerInit
    /\ ExtInit
    /\ need_to_update = [c \in ClanTags |-> FALSE]
    /\ BoardsStart([c \in Channels |-> IF c = "c1" THEN "donation" ELSE "legend"],
                   [c \in Channels |-> 0], [c \in Channels |-> NoMessage])

SpecRender == InitRender /\ [][NextRender]_vars

\* The scheduler's own steps happen when they can: tasks.loop starts the
\* next tick, a task waiting for the throttler gets it, an update_board that
\* was started ends, the throttler's sleep ends, gather returns.  Nothing
\* obliges the flusher to mark a board or a render to end in one way.
SpecRenderFair ==
    /\ SpecRender
    /\ WF_vars(update_board_loops)
    /\ WF_vars(gather_done)
    /\ \A c \in Channels :
          /\ WF_vars(run_board(c))
          /\ WF_vars(\E outcome \in SyncOutcomes : update_board(c, outcome))
          /\ WF_vars(run_board_exit(c))

\* The scheduler with the cog's board loop and the REFRESH reaction, each
\* with the outcomes that tell the boards' states apart.
NextBoards ==
    \/ \E tags \in SUBSET ClanTags : boards_marked(tags)
    \/ update_board_loops
    \/ \E c \in Channels : run_board(c)
    \/ \E c \in Channels, outcome \in {"ok", "error", "edit_forbidden"} :
          update_board(c, outcome)
    \/ \E c \in Channels : run_board_exit(c)
    \/ gather_done
    \/ DonationBoard_update_board_loops
    \/ \E c \in Channels, outcome \in {"rows", "error"} :
          update_board_loops_body(c, outcome)
    \/ \E c \in Channels : reaction_action(c, "REFRESH", "rows")

SpecBoards == Init /\ [][NextBoards]_vars

\* Navigation: the reactions and the forced update on a board whose message
\* exists.
NextNav ==
    \/ \E c \in Channels, emoji \in Emojis, outcome \in CogOutcomes :
          reaction_action(c, emoji, outcome)
    \/ \E c \in Channels, outcome \in CogOutcomes : forceboard(c, outcome)

\* One of the boards has a message, well-formed or not; the other has none yet.
InitNav ==
    /\ SyncerInit
    /\ ExtInit
    /\ need_to_update = [c \in ClanTags |-> FALSE]
    /\ \E b \in Channels :
       \E m \in MalformedMessages \cup
                    {Message(<< >>, <<Embed(TRUE, TRUE, Footer(2, 1))>>)} :
          BoardsStart([c \in Channels |-> IF c = "c1" THEN "donation" ELSE "trophy"],
                      [c \in Channels |-> IF c = b THEN 1 ELSE 0],
                      [c \in Channels |-> IF c = b THEN m ELSE NoMessage])

SpecNav == InitNav /\ [][NextNav]_vars

\* ================================================================ claims

\* The delta the flush merges for a pending entry: that of its captured pair.
PendingDons(e) == Resolve(e.old_dons, e.new_dons)
PendingRec(e) == Resolve(e.old_rec, e.new_rec)

\* C1 (as claimed): the pending entry of a player stands for the sum of the
\* resolved deltas of all donation (received) events recorded for the player
\* in the window.
C1_PendingIsSumOfDeltas ==
    \A p \in DOMAIN board_batch_data :
        /\ PendingDons(board_batch_data[p]) = window[p].dons
        /\ PendingRec(board_batch_data[p]) = window[p].rec

C3_WrittenAtMostOnce ==
    \A p \in DOMAIN window : window[p].written <= 1

\* C4: no step lowers a stored donations or received value, in the players
\* table or in the live event mirror.
C4_MergeNonRegression ==
    [][\A p \in Players :
          /\ players'[p].donations >= players[p].donations
          /\ players'[p].received >= players[p].received
          /\ eventplayers'[p].donations >= eventplayers[p].donations
          /\ eventplayers'[p].received >= eventplayers[p].received]_vars

\* A batch was merged whose captured new value lies below the stored one.
C4_Witness ==
    /\ flush_pc = "query2"
    /\ \E p \in DOMAIN cycle.sent :
          /\ cycle.sent[p].new_dons < players[p].donations
          /\ cycle.sent[p].old_dons > cycle.sent[p].new_dons
          /\ players[p].donations > 1

\* C5: a donation or received event with new >= old puts new - old in the
\* donation log.
C5_DeltaWithoutReset ==
    (lastEvent.kind # "none" /\ lastEvent.new >= lastEvent.old) =>
        LET e == donationlog_batch_data[Len(donationlog_batch_data)] IN
        /\ lastEvent.kind = "donation" =>
              (e.donations = lastEvent.new - lastEvent.old /\ e.received = 0)
        /\ lastEvent.kind = "received" =>
              (e.received = lastEvent.new - lastEvent.old /\ e.donations = 0)

C5_Witness ==
    /\ lastEvent.kind = "donation"
    /\ lastEvent.new = lastEvent.old
    /\ lastEvent.new > 0
    /\ donationlog_batch_data[Len(donationlog_batch_data)].donations = 0

\* C6: a donation or received event with new < old puts new in the donation
\* log, and no logged delta is negative.
C6_DeltaOnReset ==
    /\ (lastEvent.kind # "none" /\ lastEvent.new < lastEvent.old) =>
          LET e == donationlog_batch_data[Len(donationlog_batch_data)] IN
          /\ lastEvent.kind = "donation" => e.donations = lastEvent.new
          /\ lastEvent.kind = "received" => e.received = lastEvent.new
    /\ \A i \in 1 .. Len(donationlog_batch_data) :
          /\ donationlog_batch_data[i].donations >= 0
          /\ donationlog_batch_data[i].received >= 0

C6_Witness ==
    /\ lastEvent.kind = "received"
    /\ lastEvent.new = lastEvent.old - 1
    /\ lastEvent.new > 0
    /\ donationlog_batch_data[Len(donationlog_batch_data)].received = lastEvent.new

\* C7: a tick of the flush loop on an empty pending map issues no statement
\* and changes neither the tables, the boards, the pressure counters nor
\* the map.
C7_EmptyFlushIsNoOp ==
    [][(/\ flush_pc = "idle"
        /\ DOMAIN board_batch_data = {}
        /\ <<flush_pc, cycle>>' # <<flush_pc, cycle>>)
       => /\ flush_pc' = "idle"
          /\ cycle'.result = "empty"
          /\ cycle'.issued = {}
          /\ UNCHANGED <<players, eventplayers, need_to_update, boards_counter,
                         board_batch_data, board_batch_lock,
                         last_updated_batch_lock>>]_vars

C7_Witness ==
    /\ cycle.result = "empty"
    /\ DOMAIN board_batch_data = {}
    /\ \E c \in ClanTags : boards_counter[c] > 0

\* C8 (as claimed): the score, name and clan tag of a pending entry are those
\* carried by the most recent event recorded for the player.
C8_LastWriteWins ==
    \A p \in DOMAIN board_batch_data :
        /\ board_batch_data[p].trophies = window[p].trophies
        /\ board_batch_data[p].player_name = window[p].player_name
        /\ board_batch_data[p].clan_tag = window[p].clan_tag

\* A flush cycle ends on a store error in this step.
CycleFails == flush_pc # "idle" /\ cycle'.result = "failed"

\* C9 (as claimed): after a cycle failed, its entries are no longer in the
\* pending map.
C9_FailedCycleDropsBatch ==
    [][CycleFails => DOMAIN board_batch_data' = {}]_vars

\* C9 (amended): a failing cycle leaves the pending map and the pressure
\* counters as they were and releases both locks, and the next cycle hands
\* the whole pending map, those entries included, to the store again.
C9_FailedCycleKeepsBatch ==
    [][/\ CycleFails =>
            /\ board_batch_data' = board_batch_data
            /\ boards_counter' = boards_counter
            /\ flush_pc' = "idle"
            /\ board_batch_lock' = "free"
            /\ last_updated_batch_lock' = "free"
       /\ (flush_pc = "idle" /\ flush_pc' = "query") =>
            flush_args'.batch = board_batch_data]_vars

\* A cycle failed and its entries are handed to the store again.
C9_Witness ==
    /\ nErrors > 0
    /\ flush_pc = "query"
    /\ \E p \in DOMAIN window : window[p].written > 0

\* C10 (as claimed): when a cycle ends, the batch was written to both tables
\* or to neither.
C10_AllOrNothing ==
    flush_pc = "idle" => (("query" \in cycle.done) <=> ("query2" \in cycle.done))

\* ------------------------------------------------------ boards and rendering
\* The boards a run_board task of the current tick holds.
InTick == {c \in Channels : tasks[c].st \in {"queued", "render", "sleep"}}

\* The boards a scheduler pass selects in the step.
SelectedBySync == {c \in Channels : tasks[c].st = "none" /\ tasks'[c].st = "queued"}
SelectedByCog == cog_fetch' \ cog_fetch

\* C11 (as claimed): a scheduler pass that selects a dirty board clears its
\* need_to_update flag in the same step, and no board is held by two passes
\* at once (so a board is not selected again unless it was marked again).
C11_ClaimThenRender ==
    [][/\ \A c \in SelectedBySync \cup SelectedByCog : ~need_to_update'[c]
       /\ cog_fetch' \cap {c \in Channels : tasks'[c].st # "none"} = {}]_vars

\* The outcomes in which Discord rejected the send or the edit of the board
\* message as forbidden or not found.
PermanentRejections == {"send_forbidden", "edit_not_found",
                        "edit_not_found_send_forbidden", "edit_forbidden"}

\* C12 (as claimed): when the send or the edit of the board message was
\* rejected as forbidden or not found, the board's toggle is false when the
\* render has returned.
C12_PermanentFailureDisables ==
    (lastRender.path = "sync" /\ lastRender.outcome \in PermanentRejections)
        => ~lastRender.toggle_after

\* C13 (as claimed): no render, on any path, runs for a board whose toggle
\* was false when the render began.
C13_DisabledNeverRendered ==
    lastRender.path # "none" => lastRender.toggle

\* The outcomes in which update_board raised into run_board's "except:".
Raised == {"error", "edit_error", "edit_http_error"}

\* The tick can go on: a task is inside the throttler, or the throttler is
\* free for a waiting task, or gather can return.
TickCanGoOn ==
    sync_pc = "gather" =>
        \/ \E c \in Channels : tasks[c].st \in {"render", "sleep"}
        \/ throttler = "free" /\ \E c \in Channels : tasks[c].st = "queued"
        \/ GatherReturns

\* C14: a render that raises touches no other board's task and does not end
\* the tick; no claimed board's task is dropped before it ran; the tick ends
\* only when every claimed board's render has returned or raised, and until
\* then it can always go on.
C14_RenderFailureIsolated ==
    [][/\ \A c \in Channels :
            (tasks[c].st = "render" /\ tasks'[c].st = "sleep"
                /\ lastRender'.outcome \in Raised)
            => /\ sync_pc' = sync_pc
               /\ \A d \in Channels \ {c} : tasks'[d] = tasks[d]
       /\ \A c \in InTick : tasks'[c].st # "none"
       /\ (sync_pc = "gather" /\ sync_pc' = "idle") => InTick = {}
       /\ TickCanGoOn']_vars

\* A render raised for one board of the tick, its task has ended, and the
\* other board of the same tick is being rendered.
C14_Witness ==
    /\ lastRender.path = "sync" /\ lastRender.outcome \in Raised
    /\ \E c, d \in Channels :
          /\ c # d /\ lastRender.board = c
          /\ tasks[c].st = "done" /\ tasks[d].st = "render"

\* Renders in flight: update_board calls that started and have not returned.
InFlight ==
    Cardinality({c \in Channels : tasks[c].st = "render"})
        + (IF legend_render = "none" THEN 0 ELSE 1)

\* C15 (as claimed): at every moment the number of renders in flight is at
\* most the throttler's limit.
C15_BoundedRenderConcurrency == InFlight <= ThrottlerLimit

\* The render of board c in the last tick failed on something transient: the
\* query, the image or the webhook raised, or the platform answered the edit
\* with a server error.
FailedTransiently(c) ==
    /\ lastRender.board = c /\ lastRender.path = "sync"
    /\ lastRender.outcome \in Raised

\* C16 (as claimed): a board whose render failed transiently in one tick is
\* rendered again by a later tick once it has been marked dirty again.
C16_TransientFailureRetried ==
    \A c \in Channels :
        (FailedTransiently(c) /\ tasks[c].st = "none" /\ need_to_update[c])
            ~> (tasks[c].st = "render")

\* ------------------------------------------------------------- navigation
\* C17 (as claimed): what a navigation reaction decodes from the message is
\* the page and the season the previous render wrote into it, for a board of
\* any kind.
C17_CodecRoundTrip ==
    (lastNav.emoji # "none" /\ lastNav.expected # NoPage)
        => /\ lastNav.page = lastNav.expected.page
           /\ lastNav.season = lastNav.expected.season

\* C18: from a message without embed, without footer, with wrong separators
\* or with a field that is not an integer, the decoding gives page 1 of the
\* current season, and the render goes on (unless the reaction asks for the
\* page before page 1).
C18_DecodeTolerance ==
    (lastNav.emoji # "none" /\ lastNav.malformed)
        => /\ lastNav.page = 1
           /\ lastNav.season = get_season_id
           /\ lastNav.emoji # "LEFT" => lastNav.proceeded

\* A footer text that does not parse was decoded, and the render went on to
\* write page 2 of the current season.
C18_Witness ==
    /\ lastNav.emoji = "RIGHT" /\ lastNav.malformed /\ lastNav.had_text
    /\ lastNav.rendered
    /\ lastNav.wrote = [page |-> 2, season |-> get_season_id]

\* C19: RIGHT asks for the page after the decoded one and LEFT for the one
\* before it; LEFT on page 1 is ignored, with nothing rendered and the message
\* as it was; every page written into a message is at least 1.
C19_PagingWithClamp ==
    /\ lastNav.emoji = "RIGHT" =>
          /\ lastNav.proceeded /\ lastNav.target = lastNav.page + 1
          /\ lastNav.rendered => lastNav.wrote.page = lastNav.page + 1
    /\ (lastNav.emoji = "LEFT" /\ lastNav.page > 1) =>
          /\ lastNav.proceeded /\ lastNav.target = lastNav.page - 1
          /\ lastNav.rendered => lastNav.wrote.page = lastNav.page - 1
    /\ (lastNav.emoji = "LEFT" /\ lastNav.page = 1) =>
          /\ ~lastNav.proceeded /\ ~lastNav.rendered /\ lastNav.unchanged
          /\ lastNav.wrote = lastNav.expected
    /\ \A c \in Channels : written[c] # NoPage => written[c].page >= 1

\* LEFT arrived on a trophy board showing page 1, written by an earlier
\* render, and was ignored.
C19_Witness ==
    /\ lastNav.emoji = "LEFT" /\ board_type[lastNav.board] = "trophy"
    /\ lastNav.page = 1 /\ lastNav.expected.page = 1
    /\ ~lastNav.proceeded /\ lastNav.unchanged

SortToggles == {"PERCENTAGE", "GAIN", "LAST_ONLINE"}

\* C21 (as claimed): a sort-toggle reaction stores its sort key and the board
\* is rendered again from page 1, whatever page the message showed.
C21_SortToggleRestartsPaging ==
    lastNav.emoji \in SortToggles =>
        /\ sort_by[lastNav.board]
              = SortAfter(lastNav.emoji, board_type[lastNav.board], "none")
        /\ sort_by[lastNav.board] # "none"
        /\ lastNav.target = 1
        /\ lastNav.rendered => lastNav.wrote.page = 1

Rows(n, pp) ==
    IF pp # 0 THEN pp
    ELSE IF n <= 5 THEN <<15, 15, 20, 25, 25>>[n] ELSE 50

\* The rows of the pages before page n, in closed form.
RowsBefore(n, pp) ==
    IF pp # 0 THEN (n - 1) * pp
    ELSE IF n <= 6 THEN <<0, 15, 30, 50, 75, 100>>[n] ELSE 100 + 50 * (n - 6)

\* C23: the LIMIT of the query for page n is the page's row count and its
\* OFFSET is the sum of the row counts of the pages before it, so the window
\* of page n + 1 begins where that of page n ends.
C23_PageSizesAndOffsets ==
    /\ \A n \in 1 .. MaxQueryPage :
          queried[n] # NoWindow =>
              /\ queried[n].limit = Rows(n, per_page)
              /\ queried[n].offset = RowsBefore(n, per_page)
    /\ \A n \in 1 .. MaxQueryPage - 1 :
          (queried[n] # NoWindow /\ queried[n + 1] # NoWindow) =>
              queried[n + 1].offset = queried[n].offset + queried[n].limit
    /\ lastQuery.path # "none" =>
          /\ lastQuery.limit = Rows(lastQuery.page, per_page)
          /\ lastQuery.offset = RowsBefore(lastQuery.page, per_page)

\* With the default policy the fifth, sixth and seventh page have been
\* asked for, the last by a RIGHT on page 6.
C23_Witness ==
    /\ per_page = 0
    /\ queried[5] # NoWindow /\ queried[6] # NoWindow
    /\ lastQuery = [path |-> "cog", page |-> 7, limit |-> 50, offset |-> 150]

\* ------------------------------------------------------------ the sweep
\* The step in which query3 returned and the counters of its tags are popped.
SweepStep == flush_pc = "query3" /\ flush_pc' = "idle" /\ cycle'.result = "ok"

ClansIn(batch) == {batch[p].clan_tag : p \in DOMAIN batch}

\* C25 (as claimed): when a non-empty flush cycle completes, the pressure
\* counter of every clan with a player in the flushed batch has been
\* incremented: it is above zero when the sweep reads it.
C25_PressureAccountedOnFlush ==
    [][SweepStep =>
          \A c \in ClansIn(board_batch_data) : boards_counter[c] > 0]_vars

\* ------------------------------------------------------------ ownership
\* C26 (as claimed): the donations and received of a row of the players
\* table change only in the step in which the flusher's query returns.
C26_CountersOwnedByFlusher ==
    [][\A p \in Players :
          (players'[p].donations # players[p].donations
             \/ players'[p].received # players[p].received)
          => (flush_pc = "query" /\ flush_pc' = "query2")]_vars

\* ----------------------------------------------------------- supersession
\* C27: a render in flight ends only by returning or raising, whatever is
\* marked meanwhile; and a board marked dirty while its render is in flight
\* is, unless it has been disabled, claimed again by a later tick and
\* rendered.
C27_Supersession ==
    /\ [][\A c \in Channels :
             tasks[c].st = "render" =>
                 \/ tasks'[c].st = "render"
                 \/ tasks'[c].st = "sleep" /\ lastRender'.board = c]_vars
    /\ \A c \in Channels :
          /\ (tasks[c].st = "render" /\ need_to_update[c])
                ~> (~toggle[c] \/ tasks[c].st = "queued")
          /\ (tasks[c].st = "queued") ~> (tasks[c].st = "render")

\* A board a tick rendered before is being rendered again and has been
\* marked dirty while this render is in flight.
C27_Witness ==
    \E c \in Channels :
        /\ tasks[c].st = "render" /\ need_to_update[c] /\ toggle[c]
        /\ lastRender.board = c /\ lastRender.path = "sync"

\* C28: autoclaim mutual exclusion.  At most one autoclaim start command of
\* the guild is in its claiming loops at any time.
C28_AtMostOneInLoops ==
    Cardinality({i \in Starts : invocations[i].pc \in InLoops}) <= 1

\* C29: autoclaim cancel.  An invocation that was running when autoclaim
\* cancel was issued begins the body of neither loop for another member or
\* failed player.
BeginsAnother(i) ==
    /\ invocations'[i].pc \in {"member", "failed"}
    /\ \/ invocations[i].pc # invocations'[i].pc
       \/ invocations[i].idx # invocations'[i].idx

C29_CancelledStopsBeforeNext ==
    [][\A i \in Starts : invocations[i].cancelled => ~BeginsAnother(i)]_vars

\* C30: no lock across I/O.  While a call to the store is pending, neither
\* board_batch_lock nor last_updated_batch_lock is held, and so no handler
\* and no update() call is queued behind one of them.
StoreCallPending == flush_pc \in {"query", "query2", "query3"}

C30_NoLockAcrossIO ==
    StoreCallPending =>
        /\ board_batch_lock = "free"
        /\ last_updated_batch_lock = "free"
        /\ batch_waiters = << >>
        /\ update_waiters = << >>

\* C31: deadlock freedom.  last_updated_batch_lock is taken by the flush only
\* inside board_batch_lock and by no task that then waits for
\* board_batch_lock; and whenever a task waits for one of the two locks, a
\* task that holds a lock, or a waiter the lock is free for, can take its
\* next step.
LockWaiters ==
    \/ batch_waiters # << >>
    \/ update_waiters # << >>
    \/ flush_pc = "lock3"
    \/ updb_pc = "wait"

LockProgress ==
    \/ handler_resume
    \/ update_resume
    \/ query_done
    \/ query2_done
    \/ lock3_acquired
    \/ query3_done
    \/ update_db_acquired
    \/ update_db_query_done
    \/ update_db_query2_done

FlushClears ==
    /\ flush_pc = "query3"
    /\ flush_pc' = "idle"
    /\ cycle'.result = "ok"
    /\ board_batch_data' = NoEntries

C32_OnlyFlusherRemoves ==
    [][/\ DOMAIN board_batch_data \subseteq DOMAIN board_batch_data'
          \/ FlushClears
       /\ (board_batch_data' # board_batch_data /\ ~FlushClears) =>
            \E p \in Players :
                /\ DOMAIN board_batch_data' = DOMAIN board_batch_data \cup {p}
                /\ board_batch_data'[p].player_tag = p
                /\ \A q \in DOMAIN board_batch_data \ {p} :
                       board_batch_data'[q] = board_batch_data[q]]_vars

\* A flush cycle has written and cleared a map with entries of both players.
C32_Witness ==
    /\ cycle.result = "ok"
    /\ board_batch_data = NoEntries
    /\ \A p \in Players : players[p].donations = 2

\* C33: upsert coverage.  When the statement on the players table returned,
\* every player with an entry in the batch handed to it has a row of the
\* current season, holding the merge of the entry into the counters stored
\* before (into 0 for a player who had no row).
C33_UpsertCoverage ==
    [][(flush_pc = "query" /\ flush_pc' = "query2") =>
          \A p \in DOMAIN flush_args.batch :
              /\ p \in DOMAIN players'
              /\ players'[p].donations =
                     get_don_rec_max(flush_args.batch[p].old_dons,
                                     flush_args.batch[p].new_dons,
                                     IF p \in DOMAIN players
                                     THEN players[p].donations ELSE 0)]_vars

\* C34: season attribution across rollover.  An entry recorded before
\* Syncer.season_id changed, and not touched since, is merged by the statement on the
\* players table into the player's row of the season before (the one it was
\* recorded in) and not into a row of the new season.
CarriedOver(p) ==
    /\ p \in DOMAIN carried
    /\ p \in DOMAIN flush_args.batch
    /\ flush_args.batch[p] = carried[p]

C34_SeasonAttribution ==
    [][(flush_pc = "query" /\ flush_pc' = "query2") =>
          \A p \in Players :
              CarriedOver(p) =>
                  /\ p \in DOMAIN players => players'[p] = players[p]
                  /\ p \in DOMAIN past_players'
                  /\ past_players'[p].donations =
                         get_don_rec_max(carried[p].old_dons, carried[p].new_dons,
                                         past_players[p].donations)]_vars

\* C35: the donation-log batch is not lost under interleaving.  When
\* send_donationlog_events clears the batch, every event that was appended
\* while it was suspended in the channel lookup, and whose clan has an
\* enabled donation log, is among the events dispatched to that clan's
\* channel, or is still in the batch.
InSeq(e, seq) == \E j \in 1 .. Len(seq) : seq[j] = e

C35_LogBatchNotLost ==
    [][(log_pc = "fetch" /\ log_pc' = "idle") =>
          \A i \in log_seen + 1 .. Len(donationlog_batch_data) :
              LET e == donationlog_batch_data[i] IN
              e.clan_tag \in LogEnabled =>
                  \/ InSeq(e, dispatched'[e.clan_tag])
                  \/ InSeq(e, donationlog_batch_data')]_vars

\* C36: rank numbering.  The rank displayed for the row at 0-based position i
\* of a rendered page is the OFFSET of the page's query + i + 1.
C36_RankNumbering ==
    lastQuery.path # "none" =>
        \A i \in 0 .. Len(ranks) - 1 : ranks[i + 1] = lastQuery.offset + i + 1

\* C37: autoclaim flag release.  When an autoclaim start command that had set
\* the flag returns, the guild's flag is not left at True.
Returns(i) ==
    /\ invocations[i].pc \in Running
    /\ invocations'[i].pc \in {"returned", "stopped", "done"}

C37_FlagReleasedOnReturn ==
    [][\A i \in Starts : Returns(i) => running_commands' # "true"]_vars

\* C38: scrolling past the end.  A reaction whose query returned no rows
\* leaves the board message, and so the page and season it encodes, as they
\* were; and the page a render wrote into a message was one with rows.
C38_ScrolledTooFarKeepsMessage ==
    /\ (lastNav.board # "none" /\ lastRender.path = "reaction"
            /\ lastRender.outcome = "empty") =>
          /\ lastNav.unchanged
          /\ ~lastNav.rendered
          /\ lastNav.wrote = lastNav.expected
    /\ \A c \in Channels : written[c] # NoPage => written[c].page <= MaxPage

\* RIGHT arrived on the last page with rows, written by an earlier render.
C38_Witness ==
    /\ lastNav.emoji = "RIGHT"
    /\ lastNav.page = MaxPage /\ lastNav.expected.page = MaxPage
    /\ lastRender.path = "reaction" /\ lastRender.outcome = "empty"
    /\ lastNav.unchanged

\* C39: pressure is not lost on failure.  A pressure counter goes down only in
\* the step in which query3 returned, and then the boards of its clan are
\* marked; a step in which a statement of the cycle raises leaves every
\* counter as it was.
C39_PressureKeptOnFailure ==
    [][/\ \A c \in ClanTags :
             boards_counter'[c] < boards_counter[c] =>
                 SweepStep /\ need_to_update'[c] /\ c \in flush_args.tags
       /\ CycleFails => boards_counter' = boards_counter]_vars

\* query3 raised while clan c1's counter was past the threshold: the counter
\* is kept and the boards are not marked.
C39_Witness ==
    /\ cycle.result = "failed" /\ "query3" \in cycle.issued
    /\ boards_counter["c1"] > PressureThreshold
    /\ ~need_to_update["c1"]

\* C40: flusher liveness.  board_batch_lock is free when a flush cycle has
\* ended, however it ended; every handler that waits for the lock gets it;
\* and every entry recorded in the pending map is, in the end, written and
\* cleared by a cycle that succeeds.
CycleEnds == flush_pc # "idle" /\ flush_pc' = "idle"

C40_FlusherLiveness ==
    /\ [][CycleEnds => board_batch_lock' = "free"]_vars
    /\ (batch_waiters # << >>) ~> (batch_waiters = << >>)
    /\ \A p \in Players :
          (p \in DOMAIN board_batch_data) ~>
              (cycle.result = "ok" /\ board_batch_data = NoEntries)

\* After a cycle that failed, a later cycle has written and cleared the map,
\* the entry of a handler that had to wait included.
C40_Witness ==
    /\ nErrors > 0
    /\ nEvents = MaxEvents
    /\ cycle.result = "ok"
    /\ board_batch_data = NoEntries
    /\ batch_waiters = << >>
    /\ \A p \in Players : players[p].donations = 2

====
